---- MODULE Spec2Model ----
(***************************************************************************)
(* alaala: the MCP dispatch loop (internal/mcp), the memory engine and     *)
(* curator (internal/memory) and the two stores (internal/storage).        *)
(*                                                                         *)
(* Conventions.  Go strings that are only compared are TLA+ strings; the   *)
(* empty Go string used as "absent" id is NoID.  Identifiers produced by   *)
(* uuid.New() are positive integers, fresh with respect to the stores.     *)
(* Importances and distances are given in tenths and stand for the        *)
(* float64 nearest to that decimal; similarities and relevance scores are  *)
(* float64 values, computed as the binary built for goarch computes them.  *)
(* Texts that the code inspects byte by byte (queries, trigger phrases,    *)
(* error messages) are sequences of bytes.                                 *)
(***************************************************************************)
EXTENDS Integers, Sequences, FiniteSets, TLC

----------------------------------------------------------------------------
(* Bounds of the model *)

MaxLines == 2
MaxMemories == 2

----------------------------------------------------------------------------
(* Program constants *)

ParseErrorCode == -32700
MethodNotFoundCode == -32601
InternalErrorCode == -32603
DefaultLimit == 5
ToolDefaultLimit == 5
ToolDefaultMinImportance == 3
ToolDefaultImportance == 5
PrimerLimit == 3
PrimerMinImportance == 7
ProjectMemoriesLimit == 100

NoID == 0
NullID == 0
Cwd == "/work"
OtherPath == "/other"
NoSuchProject == 9

----------------------------------------------------------------------------
(* Values *)

RECURSIVE SeqToSet(_)
SeqToSet(s) == IF s = <<>> THEN {} ELSE {Head(s)} \cup SeqToSet(Tail(s))

HasDuplicates(s) == \E i, j \in 1..Len(s) : i < j /\ s[i] = s[j]

Min(a, b) == IF a < b THEN a ELSE b
Max(a, b) == IF a > b THEN a ELSE b

(* All orders in which the rows of a set can be returned. *)
Orders(S) == {s \in [1..Cardinality(S) -> S] : \A i, j \in 1..Cardinality(S) : i # j => s[i] # s[j]}

(* error values: cause is the text of err.Error(), gotype the dynamic type *)
NoErr == [cause |-> "", gotype |-> "nil"]
FmtErr(text) == [cause |-> text, gotype |-> "fmt"]
SqlErr == [cause |-> "sqlite failure", gotype |-> "sqlite3.Error"]
JSONErr == [cause |-> "unexpected end of JSON input", gotype |-> "json.SyntaxError"]
(* fmt.Errorf("text: %w", err): the message of the cause stays part of the text *)
Wrap(text, err) == [cause |-> err.cause, gotype |-> "fmt"]

(* JSON values of a request: an absent member, or an object *)
Absent == [absent |-> TRUE]
IsAbsent(v) == "absent" \in DOMAIN v
Field(obj, name, zero) == IF name \in DOMAIN obj THEN obj[name] ELSE zero

----------------------------------------------------------------------------
(* Texts inspected by the code: sequences of ASCII codes *)

TextJWT == <<74, 87, 84>>
TextJwtLower == <<106, 119, 116>>
TextDb == <<100, 98>>
TextWork == <<119, 111, 114, 107>>
TextOther == <<111, 116, 104>>
TextEmpty == <<>>
TagA == <<97>>
TagB == <<98>>

(* the order of two texts under SQLite's BINARY collation (memcmp, then length) *)
RECURSIVE TextLess(_, _)
TextLess(s, t) ==
    IF t = <<>> THEN FALSE
    ELSE IF s = <<>> THEN TRUE
    ELSE IF Head(s) # Head(t) THEN Head(s) < Head(t)
    ELSE TextLess(Tail(s), Tail(t))

(* Go's numbers.  An integer of TLC has 32 bits, so a natural number is
   a sequence of limbs in base 2^14, least significant first; an int64 and a
   float64 are built from it. *)

Base == 2 ^ 14

RECURSIVE Carry(_, _)
(* the limbs of the number whose columns (possibly negative or above the base) are cols *)
Carry(cols, c) ==
    IF cols = <<>>
    THEN IF c = 0 THEN <<>> ELSE <<c % Base>> \o Carry(<<>>, c \div Base)
    ELSE <<(Head(cols) + c) % Base>> \o Carry(Tail(cols), (Head(cols) + c) \div Base)

Limb(a, k) == IF k >= 1 /\ k <= Len(a) THEN a[k] ELSE 0

RECURSIVE Trim(_)
Trim(a) == IF a # <<>> /\ a[Len(a)] = 0 THEN Trim(SubSeq(a, 1, Len(a) - 1)) ELSE a

(* a + sign * b, for a >= b when sign is -1 *)
NatSum(a, sign, b) ==
    Trim(Carry([k \in 1..Max(Len(a), Len(b)) |-> Limb(a, k) + sign * Limb(b, k)], 0))
NatAdd(a, b) == NatSum(a, 1, b)
NatSub(a, b) == NatSum(a, -1, b)

NatLess(a, b) ==
    \E k \in 1..Len(b) :
        /\ Limb(a, k) < b[k]
        /\ \A j \in (k + 1)..Max(Len(a), Len(b)) : Limb(a, j) = Limb(b, j)

RECURSIVE Column(_, _, _, _)
Column(a, b, k, i) ==
    IF i > Len(a) THEN 0 ELSE a[i] * Limb(b, k + 1 - i) + Column(a, b, k, i + 1)
(* operands of at most 7 limbs, so that a column stays below 2^31 *)
NatMul(a, b) ==
    IF a = <<>> \/ b = <<>> THEN <<>>
    ELSE Trim(Carry([k \in 1..(Len(a) + Len(b) - 1) |-> Column(a, b, k, 1)], 0))

RECURSIVE DivLimbs(_, _, _)
(* quotient limbs and remainder of a by d < 2^17, from the top limb down *)
DivLimbs(a, d, r) ==
    IF a = <<>> THEN [q |-> <<>>, r |-> r]
    ELSE LET Above(low, top) == [q |-> low.q \o <<top>>, r |-> low.r]
         IN  Above(DivLimbs(SubSeq(a, 1, Len(a) - 1), d, (r * Base + a[Len(a)]) % d),
                   (r * Base + a[Len(a)]) \div d)
TrimQuotient(d) == [q |-> Trim(d.q), r |-> d.r]
NatDivSmall(a, d) == TrimQuotient(DivLimbs(a, d, 0))

RECURSIVE BitsOf(_)
BitsOf(n) == IF n = 0 THEN 0 ELSE 1 + BitsOf(n \div 2)
(* the number of bits of a, which has no leading zero limb *)
BitLen(a) == IF a = <<>> THEN 0 ELSE 14 * (Len(a) - 1) + BitsOf(a[Len(a)])

NatOfInt(n) == Trim(Carry(<<n>>, 0))
NatShiftLeft(a, s) ==
    IF a = <<>> THEN <<>>
    ELSE [k \in 1..(s \div 14) |-> 0] \o NatMul(a, <<2 ^ (s % 14)>>)
LostBits(d, a, n) == [q |-> d.q, lost |-> d.r # 0 \/ \E k \in 1..Min(n, Len(a)) : a[k] # 0]
(* a \div 2^s, and whether a bit was lost *)
NatShiftRight(a, s) ==
    LostBits(NatDivSmall(SubSeq(a, Min(s \div 14, Len(a)) + 1, Len(a)), 2 ^ (s % 14)),
             a, s \div 14)

(* An exact binary number: sign * m * 2^e with m a natural number without
   leading zero limb *)
Bin(neg, m, e) == [neg |-> neg /\ m # <<>>, m |-> m, e |-> IF m = <<>> THEN 0 ELSE e]
BinZero == Bin(FALSE, <<>>, 0)
BinOfInt(n) == Bin(n < 0, NatOfInt(IF n < 0 THEN -n ELSE n), 0)
BinNeg(x) == Bin(~x.neg, x.m, x.e)
BinAbs(x) == Bin(FALSE, x.m, x.e)
BinMul(x, y) == Bin(x.neg # y.neg, NatMul(x.m, y.m), x.e + y.e)
(* a and b are the two magnitudes at the common exponent e *)
AddAligned(xneg, a, yneg, b, e) ==
    IF xneg # yneg /\ NatLess(a, b) THEN Bin(yneg, NatSub(b, a), e)
    ELSE Bin(xneg, NatSum(a, IF xneg = yneg THEN 1 ELSE -1, b), e)
BinAdd(x, y) ==
    IF x.m = <<>> THEN y
    ELSE IF y.m = <<>> THEN x
    ELSE AddAligned(x.neg, NatShiftLeft(x.m, x.e - Min(x.e, y.e)),
                    y.neg, NatShiftLeft(y.m, y.e - Min(x.e, y.e)), Min(x.e, y.e))
BinLess(x, y) == BinAdd(x, BinNeg(y)).neg

(* float64: a binary number whose m has exactly 53 bits, or zero.  Round is
   the rounding of an exact result to the nearest float64, ties to the even
   m; sticky tells that the exact value is a little above m * 2^e.
   Subnormal numbers, infinities and NaN are left out. *)
Renormalized(neg, r, e) ==
    IF BitLen(r) > 53 THEN Bin(neg, NatDivSmall(r, 2).q, e + 1) ELSE Bin(neg, r, e)
(* c holds the 53 bits to keep and, lowest, the first bit to drop *)
HalfToEven(c, more) ==
    IF c[1] % 2 = 1 /\ (more \/ (c[1] \div 2) % 2 = 1)
    THEN NatAdd(NatDivSmall(c, 2).q, <<1>>)
    ELSE NatDivSmall(c, 2).q
RoundCut(neg, cut, e, sticky) == Renormalized(neg, HalfToEven(cut.q, cut.lost \/ sticky), e)
RoundLen(neg, m, e, sticky, len) ==
    IF len = 0 THEN BinZero
    ELSE IF len <= 53 THEN Bin(neg, NatShiftLeft(m, 53 - len), e - (53 - len))
    ELSE RoundCut(neg, NatShiftRight(m, len - 54), e + (len - 53), sticky)
Round(neg, m, e, sticky) == RoundLen(neg, m, e, sticky, BitLen(m))
RoundBin(x) == Round(x.neg, x.m, x.e, FALSE)

FAdd(x, y) == RoundBin(BinAdd(x, y))
FSub(x, y) == RoundBin(BinAdd(x, BinNeg(y)))
FMul(x, y) == RoundBin(BinMul(x, y))
(* the order of two float64: by sign, then by exponent, then by m *)
FBelow(u, v) ==
    IF u.m = <<>> \/ v.m = <<>> THEN v.m # <<>>
    ELSE IF u.e # v.e THEN u.e < v.e
    ELSE NatLess(u.m, v.m)
FLess(x, y) ==
    IF x.neg # y.neg THEN x.neg
    ELSE IF x.neg THEN FBelow(y, x)
    ELSE FBelow(x, y)
RoundQuotient(neg, d) == Round(neg, d.q, -70, d.r # 0)
(* the float64 nearest to p / q, as a decimal literal or a JSON number is read; 0 < q < 2^17 *)
FRatio(p, q) ==
    RoundQuotient(p < 0, NatDivSmall(NatShiftLeft(NatOfInt(IF p < 0 THEN -p ELSE p), 70), q))
FZero == BinZero
FOne == Bin(FALSE, <<0, 0, 0, 2 ^ 10>>, -52)

(* a value of a table that was computed once, or else the value itself *)
Known(table, key, value) == IF key \in DOMAIN table THEN table[key] ELSE value
(* the float64 nearest to k / 10: a JSON number or a stored REAL, which the model writes in tenths *)
Float64Tenths == [k \in 0..20 |-> FRatio(k, 10)]
FTenths(k) == Known(Float64Tenths, k, FRatio(k, 10))

Two64 == <<0, 0, 0, 0, 2 ^ 8>>
(* the 64 bits of the two's complement of a number of the given sign *)
Bits64(neg, low) == IF neg /\ low # <<>> THEN NatSub(Two64, low) ELSE low
Signed64(bits) ==
    IF BitLen(bits) = 64 THEN Bin(TRUE, NatSub(Two64, bits), 0) ELSE Bin(FALSE, bits, 0)
(* int64: the integer x brought into -2^63 .. 2^63 - 1 by dropping the bits from 2^64 on *)
WrapInt64(x) ==
    Signed64(Bits64(x.neg,
                    Trim([k \in 1..Min(Len(x.m), 5) |-> IF k = 5 THEN x.m[k] % 2 ^ 8 ELSE x.m[k]])))
(* Go's x % d: the sign of x and the remainder of its magnitude *)
GoRem(x, d) == (IF x.neg THEN -1 ELSE 1) * NatDivSmall(x.m, d).r

(* simpleHash: h = 31*h + s[i] over the bytes in int64 arithmetic, then -h
   (again in int64) when h is negative *)
RECURSIVE HashFrom(_, _)
HashFrom(h, s) ==
    IF h.m = <<>> /\ s = <<>> THEN BinZero  \* h is looked at first, so that each round is computed before the next
    ELSE IF s = <<>> THEN h
    ELSE HashFrom(WrapInt64(BinAdd(BinMul(BinOfInt(31), h), BinOfInt(Head(s)))), Tail(s))
Negated64(h) == IF h.neg THEN WrapInt64(BinNeg(h)) ELSE h
simpleHash(s) == Negated64(HashFrom(BinZero, s))

(* embedLocal: component i is ((hash+i) % 100) / 100 with hash + i in int64.
   The model keeps component 0 in hundredths and the number of components
   before hash + i wraps around (384, all of them, unless the hash is within
   383 of the largest int64); the two fix the 384 components. *)
Two63 == <<0, 0, 0, 0, 2 ^ 7>>
Embedding(hash) ==
    [first |-> GoRem(hash, 100),
     intact |-> IF ~hash.neg /\ WrapInt64(BinAdd(hash, BinOfInt(383))).neg
                THEN NatSub(Two63, hash.m)[1] ELSE 384]
Embeddings ==
    [text \in {TextJWT, TextJwtLower, TextDb, TextWork, TextOther, TextEmpty, TagA, TagB} |->
        Embedding(simpleHash(text))]
embedLocal(text) == Known(Embeddings, text, Embedding(simpleHash(text)))

----------------------------------------------------------------------------
(* SQLite store (internal/storage/sqlite.go) *)

EmptySQLite ==
    [projects |-> {}, sessions |-> {}, memories |-> {}, memory_tags |-> {},
     memory_triggers |-> {}, memory_relationships |-> {}]

NoProject == [id |-> NoID, name |-> <<>>, path |-> ""]
NoMemory == [ID |-> NoID, ProjectID |-> NoID, SessionID |-> NoID, Content |-> <<>>,
             Importance |-> 0, ActionRequired |-> FALSE, Tags |-> <<>>, TriggerPhrases |-> <<>>]

ProjectIDs(db) == {p.id : p \in db.projects}
SessionIDs(db) == {s.id : s \in db.sessions}
MemoryIDs(db) == {m.id : m \in db.memories}

(* INSERT INTO projects: id is the primary key, path is UNIQUE *)
CreateProjectOK(db, project) ==
    /\ project.id \notin ProjectIDs(db)
    /\ \A p \in db.projects : p.path # project.path
SQLiteCreateProject(db, project) ==
    IF CreateProjectOK(db, project)
    THEN [db EXCEPT !.projects = @ \cup {[id |-> project.id, name |-> project.name, path |-> project.path]}]
    ELSE db

SQLiteGetProject(db, id) ==
    IF \E p \in db.projects : p.id = id
    THEN CHOOSE p \in db.projects : p.id = id
    ELSE NoProject

GetProjectByPath(db, path) ==
    IF \E p \in db.projects : p.path = path
    THEN CHOOSE p \in db.projects : p.path = path
    ELSE NoProject

(* mutant: the foreign key of memories.project_id is not enforced *)
CreateMemoryOK_NoForeignKey(db, memory) ==
    /\ memory.ID \notin MemoryIDs(db)
    /\ memory.SessionID = NoID \/ memory.SessionID \in SessionIDs(db)
    /\ ~HasDuplicates(memory.Tags)
    /\ ~HasDuplicates(memory.TriggerPhrases)

(* The transaction of CreateMemory commits only if every INSERT passes its
   constraints: primary key of memories, the two foreign keys, and the primary
   keys (memory_id, tag) and (memory_id, phrase). *)
CreateMemoryOK(db, memory) ==
    /\ memory.ID \notin MemoryIDs(db)
    /\ memory.ProjectID \in ProjectIDs(db)
    /\ memory.SessionID = NoID \/ memory.SessionID \in SessionIDs(db)
    /\ ~HasDuplicates(memory.Tags)
    /\ ~HasDuplicates(memory.TriggerPhrases)
(* mutant: the row replaces the rows that have the same content *)
SQLiteCreateMemory_ReplacesSameContent(db, memory) ==
    IF CreateMemoryOK(db, memory)
    THEN [db EXCEPT
            !.memories = {m \in @ : m.content # memory.Content}
                         \cup {[id |-> memory.ID, project_id |-> memory.ProjectID,
                                 session_id |-> memory.SessionID, content |-> memory.Content,
                                 importance |-> memory.Importance,
                                 action_required |-> memory.ActionRequired]},
            !.memory_tags = @ \cup {<<memory.ID, t>> : t \in SeqToSet(memory.Tags)},
            !.memory_triggers = @ \cup {<<memory.ID, t>> : t \in SeqToSet(memory.TriggerPhrases)}]
    ELSE db

SQLiteCreateMemory(db, memory) ==
    IF CreateMemoryOK(db, memory)
    THEN [db EXCEPT
            !.memories = @ \cup {[id |-> memory.ID, project_id |-> memory.ProjectID,
                                  session_id |-> memory.SessionID, content |-> memory.Content,
                                  importance |-> memory.Importance,
                                  action_required |-> memory.ActionRequired]},
            !.memory_tags = @ \cup {<<memory.ID, t>> : t \in SeqToSet(memory.Tags)},
            !.memory_triggers = @ \cup {<<memory.ID, t>> : t \in SeqToSet(memory.TriggerPhrases)}]
    ELSE db

TagRows(db, id) == {r[2] : r \in {x \in db.memory_tags : x[1] = id}}
TriggerRows(db, id) == {r[2] : r \in {x \in db.memory_triggers : x[1] = id}}

(* SELECT tag FROM memory_tags WHERE memory_id = ? (and the same for phrases)
   has no ORDER BY: SQLite answers it from the index of the primary key
   (memory_id, tag), so the rows come in key order. *)
KeyOrder(S) ==
    CHOOSE s \in Orders(S) : \A i, j \in 1..Len(s) : i < j => TextLess(s[i], s[j])

(* GetMemory: the row, then its tags and its trigger phrases *)
SQLiteGetMemory(db, id) ==
    IF id \in MemoryIDs(db)
    THEN LET row == CHOOSE m \in db.memories : m.id = id
         IN  [ID |-> row.id, ProjectID |-> row.project_id, SessionID |-> row.session_id,
              Content |-> row.content, Importance |-> row.importance,
              ActionRequired |-> row.action_required,
              Tags |-> KeyOrder(TagRows(db, id)), TriggerPhrases |-> KeyOrder(TriggerRows(db, id))]
    ELSE NoMemory

GetRelationships(db, memoryID) ==
    {r \in db.memory_relationships : r.from = memoryID \/ r.to = memoryID}

----------------------------------------------------------------------------
(* Weaviate store (internal/storage/weaviate.go) *)

(* The fields the GraphQL query of Search selects: the builder is given the
   class name, the near-vector argument and the limit, and no WithFields. *)
QueryFields == {}

Restrict(f, S) == [k \in (DOMAIN f) \cap S |-> f[k]]

WeaviateIDs(w) == {o.id : o \in w}

(* Store: properties["content"] = content, then every metadata key is copied
   over the map, so a metadata key "content" replaces the content *)
WeaviateStore(w, id, content, embedding, metadata) ==
    w \cup {[id |-> id, vector |-> embedding,
             properties |-> metadata @@ ("content" :> content)]}

VectorDistance(e1, e2) == IF e1 = e2 THEN 0 ELSE 5

(* mutant: the query selects the stored properties and _additional { id distance } *)
RawItem_AllFields(o, embedding) ==
    o.properties @@
    ("_additional" :> [id |-> o.id, distance |-> VectorDistance(o.vector, embedding)])

(* What the server answers for one stored object: the selected fields only *)
RawItem(o, embedding) ==
    Restrict(o.properties @@
             ("_additional" :> [id |-> o.id, distance |-> VectorDistance(o.vector, embedding)]),
             QueryFields)

(* nearest first, at most limit objects *)
NearestOrders(w, embedding) ==
    {s \in Orders(w) : \A i, j \in 1..Len(s) :
        i < j => VectorDistance(s[i].vector, embedding) <= VectorDistance(s[j].vector, embedding)}
RawResponse(w, embedding, limit) ==
    LET s == CHOOSE x \in NearestOrders(w, embedding) : TRUE
        n == IF limit < 0 THEN 0 ELSE Min(limit, Len(s))
    IN  [i \in 1..n |-> RawItem(s[i], embedding)]

ItemID(item) ==
    IF "_additional" \in DOMAIN item /\ "id" \in DOMAIN item["_additional"]
    THEN item["_additional"].id ELSE NoID
(* 1.0 - x in float64, for the distances and the certainty of the specifications computed once *)
OneMinus ==
    [x \in {FTenths(0), FTenths(5), FTenths(9), FTenths(20), FSub(FOne, FTenths(9))} |->
        FSub(FOne, x)]
FOneMinus(x) == Known(OneMinus, x, FSub(FOne, x))

ItemDistance(item) ==
    IF "_additional" \notin DOMAIN item THEN FZero
    ELSE IF "distance" \in DOMAIN item["_additional"]
    THEN FTenths(item["_additional"].distance)
    ELSE IF "certainty" \in DOMAIN item["_additional"]
    THEN FOneMinus(FTenths(item["_additional"].certainty))
    ELSE FZero

KeepItem(item, filterMap) ==
    /\ ItemID(item) # NoID
    /\ ~(/\ filterMap.project_id # NoID
         /\ "projectId" \in DOMAIN item
         /\ item["projectId"] # filterMap.project_id)
    /\ ~(/\ "importance_gte" \in DOMAIN filterMap
         /\ "importance" \in DOMAIN item
         /\ item["importance"] < filterMap.importance_gte)

RECURSIVE ParseItems(_, _)
ParseItems(items, filterMap) ==
    IF items = <<>> THEN <<>>
    ELSE LET rest == ParseItems(Tail(items), filterMap)
         IN  IF KeepItem(Head(items), filterMap)
             THEN <<[ID |-> ItemID(Head(items)), Distance |-> ItemDistance(Head(items))]>> \o rest
             ELSE rest

WeaviateSearch(w, embedding, limit, filterMap) ==
    ParseItems(RawResponse(w, embedding, limit), filterMap)

----------------------------------------------------------------------------
(* Memory engine (internal/memory/engine.go) *)

(* The durable state is the pair of stores: [sqlite |-> ..., weaviate |-> ...].
   fault names the collaborator whose calls fail during the operation:
   "none", "embed", "sqlite", "weaviate", "ai" or "env". *)

FreshMemoryID(st) ==
    LET used == MemoryIDs(st.sqlite) \cup WeaviateIDs(st.weaviate)
    IN  CHOOSE n \in 1..(Cardinality(used) + 1) : n \notin used /\ \A k \in 1..(n - 1) : k \in used

FreshProjectID(st) ==
    LET used == ProjectIDs(st.sqlite)
    IN  CHOOSE n \in 1..(Cardinality(used) + 1) : n \notin used /\ \A k \in 1..(n - 1) : k \in used

EmbedErr == [cause |-> "unknown embeddings provider", gotype |-> "fmt"]
VecErr == [cause |-> "weaviate failure", gotype |-> "fmt"]
AIErr == [cause |-> "AI request failed", gotype |-> "fmt"]
EnvErr == [cause |-> "getwd failed", gotype |-> "os.PathError"]

(* Delete: the object of the id is removed; the server answers an id it does
   not hold, and a failing request, with an error, which Delete wraps *)
WeaviateDelete(w, id, fault) ==
    IF fault = "weaviate" \/ id \notin WeaviateIDs(w)
    THEN [w |-> w, err |-> Wrap("failed to delete memory", VecErr)]
    ELSE [w |-> {o \in w : o.id # id}, err |-> NoErr]

(* mutant: a failed vector write takes the SQLite row back *)
EngineCreateMemory_RollsBack(st, mem, fault) ==
    LET id == IF mem.ID = NoID THEN FreshMemoryID(st) ELSE mem.ID
        m == [mem EXCEPT !.ID = id]
        sqlMemory == [ID |-> id, ProjectID |-> mem.ProjectID, SessionID |-> mem.SessionID,
                      Content |-> mem.Content, Importance |-> mem.Importance,
                      ActionRequired |-> mem.ActionRequired, Tags |-> mem.SemanticTags,
                      TriggerPhrases |-> mem.TriggerPhrases]
        metadata == [project_id |-> mem.ProjectID, importance |-> mem.Importance,
                     action_required |-> mem.ActionRequired, tags |-> mem.SemanticTags,
                     trigger_phrases |-> mem.TriggerPhrases]
    IN  IF fault = "embed"
        THEN [st |-> st, mem |-> m, err |-> Wrap("failed to generate embedding", EmbedErr)]
        ELSE IF fault = "sqlite" \/ ~CreateMemoryOK(st.sqlite, sqlMemory)
        THEN [st |-> st, mem |-> m, err |-> Wrap("failed to store memory in SQLite", SqlErr)]
        ELSE IF fault = "weaviate"
        THEN [st |-> st, mem |-> m,
              err |-> Wrap("failed to store memory in vector database", VecErr)]
        ELSE [st |-> [sqlite |-> SQLiteCreateMemory(st.sqlite, sqlMemory),
                      weaviate |-> WeaviateStore(st.weaviate, id, mem.Content,
                                                 embedLocal(mem.Content), metadata)],
              mem |-> m, err |-> NoErr]

(* mutant: the vector object is written before the SQLite row *)
EngineCreateMemory_VectorFirst(st, mem, fault) ==
    LET id == IF mem.ID = NoID THEN FreshMemoryID(st) ELSE mem.ID
        m == [mem EXCEPT !.ID = id]
        sqlMemory == [ID |-> id, ProjectID |-> mem.ProjectID, SessionID |-> mem.SessionID,
                      Content |-> mem.Content, Importance |-> mem.Importance,
                      ActionRequired |-> mem.ActionRequired, Tags |-> mem.SemanticTags,
                      TriggerPhrases |-> mem.TriggerPhrases]
        metadata == [project_id |-> mem.ProjectID, importance |-> mem.Importance,
                     action_required |-> mem.ActionRequired, tags |-> mem.SemanticTags,
                     trigger_phrases |-> mem.TriggerPhrases]
        vectored == [st EXCEPT !.weaviate =
                        WeaviateStore(st.weaviate, id, mem.Content, embedLocal(mem.Content), metadata)]
    IN  IF fault = "embed"
        THEN [st |-> st, mem |-> m, err |-> Wrap("failed to generate embedding", EmbedErr)]
        ELSE IF fault = "weaviate"
        THEN [st |-> st, mem |-> m,
              err |-> Wrap("failed to store memory in vector database", VecErr)]
        ELSE IF fault = "sqlite" \/ ~CreateMemoryOK(st.sqlite, sqlMemory)
        THEN [st |-> vectored, mem |-> m, err |-> Wrap("failed to store memory in SQLite", SqlErr)]
        ELSE [st |-> [vectored EXCEPT !.sqlite = SQLiteCreateMemory(st.sqlite, sqlMemory)],
              mem |-> m, err |-> NoErr]

(* CreateMemory: id, embedding, SQLite row, vector object, in this order *)
EngineCreateMemory(st, mem, fault) ==
    LET id == IF mem.ID = NoID THEN FreshMemoryID(st) ELSE mem.ID
        m == [mem EXCEPT !.ID = id]
        sqlMemory == [ID |-> id, ProjectID |-> mem.ProjectID, SessionID |-> mem.SessionID,
                      Content |-> mem.Content, Importance |-> mem.Importance,
                      ActionRequired |-> mem.ActionRequired, Tags |-> mem.SemanticTags,
                      TriggerPhrases |-> mem.TriggerPhrases]
        metadata == [project_id |-> mem.ProjectID, importance |-> mem.Importance,
                     action_required |-> mem.ActionRequired, tags |-> mem.SemanticTags,
                     trigger_phrases |-> mem.TriggerPhrases]
        stored == [st EXCEPT !.sqlite = SQLiteCreateMemory(st.sqlite, sqlMemory)]
    IN  IF fault = "embed"
        THEN [st |-> st, mem |-> m, err |-> Wrap("failed to generate embedding", EmbedErr)]
        ELSE IF fault = "sqlite" \/ ~CreateMemoryOK(st.sqlite, sqlMemory)
        THEN [st |-> st, mem |-> m, err |-> Wrap("failed to store memory in SQLite", SqlErr)]
        ELSE IF fault = "weaviate"
        THEN [st |-> stored, mem |-> m,
              err |-> Wrap("failed to store memory in vector database", VecErr)]
        ELSE [st |-> [stored EXCEPT !.weaviate =
                        WeaviateStore(st.weaviate, id, mem.Content, embedLocal(mem.Content), metadata)],
              mem |-> m, err |-> NoErr]

sqlMemoryToMemory(sqlMem) ==
    [ID |-> sqlMem.ID, ProjectID |-> sqlMem.ProjectID, SessionID |-> sqlMem.SessionID,
     Content |-> sqlMem.Content, Importance |-> sqlMem.Importance,
     SemanticTags |-> sqlMem.Tags, TriggerPhrases |-> sqlMem.TriggerPhrases,
     ActionRequired |-> sqlMem.ActionRequired]

NilMemory == sqlMemoryToMemory(NoMemory)

(* GetMemory: (nil, err) when the read fails, (nil, nil) when there is no row *)
EngineGetMemory(st, id, fault) ==
    IF fault = "sqlite"
    THEN [mem |-> NilMemory, err |-> Wrap("failed to get memory", SqlErr)]
    ELSE [mem |-> sqlMemoryToMemory(SQLiteGetMemory(st.sqlite, id)), err |-> NoErr]

toLower(s) == [i \in 1..Len(s) |-> IF s[i] >= 65 /\ s[i] <= 90 THEN s[i] + 32 ELSE s[i]]

(* mutant: only the start of the haystack is compared *)
contains_Prefix(haystack, needle) ==
    IF Len(needle) > Len(haystack) THEN FALSE
    ELSE SubSeq(haystack, 1, Len(needle)) = needle

contains(haystack, needle) ==
    IF Len(needle) > Len(haystack) THEN FALSE
    ELSE \E i \in 0..(Len(haystack) - Len(needle)) :
            SubSeq(haystack, i + 1, i + Len(needle)) = needle

checkTriggerMatch(query, triggers) ==
    \E k \in 1..Len(triggers) : contains(toLower(query), toLower(triggers[k]))

SimilarityWeight == FRatio(6, 10)
ImportanceWeight == FRatio(3, 10)
TriggerBoost == FRatio(2, 10)
ActionBoost == FRatio(1, 10)

(* The binaries of a release: amd64 and arm64, for macOS, Linux and Windows.
   The compiler may fuse x*y + z into one operation that rounds once, across
   statements as well; gc does so for arm64 (FMADDD) and not for amd64. *)
ReleasedArchitectures == {"amd64", "arm64"}
VARIABLE goarch  \* the architecture the running binary was built for
FusesMultiplyAdd(arch) == arch = "arm64"

(* x*y + z rounded once *)
FMulAdd(x, y, z) == RoundBin(BinAdd(BinMul(x, y), z))

(* score += mem.Importance * 0.3: the product and the sum each rounded, or the
   two fused with the score of the line before as the addend *)
AddProduct(score, x, y, arch) ==
    IF FusesMultiplyAdd(arch) THEN FMulAdd(x, y, score) ELSE FAdd(score, FMul(x, y))

(* score := similarity * 0.6; score += importance * 0.3; then the two boosts,
   in float64 *)
AddIf(score, condition, boost) == IF condition THEN FAdd(score, boost) ELSE score
WeightedSum(mem, similarity, triggerMatched, arch) ==
    AddIf(AddIf(AddProduct(FMul(similarity, SimilarityWeight),
                           FTenths(mem.Importance), ImportanceWeight, arch),
                triggerMatched, TriggerBoost),
          mem.ActionRequired, ActionBoost)

(* mutant: the score is not clamped to 1.0 *)
calculateRelevanceScore_NoClamp(mem, similarity, triggerMatched, arch) ==
    WeightedSum(mem, similarity, triggerMatched, arch)

ClampToOne(score) == IF FLess(FOne, score) THEN FOne ELSE score
calculateRelevanceScore(mem, similarity, triggerMatched, arch) ==
    ClampToOne(WeightedSum(mem, similarity, triggerMatched, arch))

(* the scores of the similarities and importances of the specifications, computed once *)
RelevanceScores ==
    [similarity \in {OneMinus[x] : x \in DOMAIN OneMinus}, importance \in 0..10,
     triggerMatched \in BOOLEAN, actionRequired \in BOOLEAN, arch \in ReleasedArchitectures |->
        calculateRelevanceScore([Importance |-> importance, ActionRequired |-> actionRequired],
                                similarity, triggerMatched, arch)]
relevanceScore(mem, similarity, triggerMatched, arch) ==
    Known(RelevanceScores, <<similarity, mem.Importance, triggerMatched, mem.ActionRequired, arch>>,
          calculateRelevanceScore(mem, similarity, triggerMatched, arch))

Swap(r, i, j) == [r EXCEPT ![i] = r[j], ![j] = r[i]]
RECURSIVE SortInner(_, _, _)
SortInner(r, i, j) ==
    IF j > Len(r) THEN r
    ELSE SortInner(IF FLess(r[i].RelevanceScore, r[j].RelevanceScore) THEN Swap(r, i, j) ELSE r, i, j + 1)
RECURSIVE SortOuter(_, _)
SortOuter(r, i) == IF i > Len(r) THEN r ELSE SortOuter(SortInner(r, i, i + 1), i + 1)
(* mutant: one pass of the inner loop, which only brings the best result first *)
sortByRelevance_OnePass(results) == SortInner(results, 1, 2)

sortByRelevance(results) == SortOuter(results, 1)

RECURSIVE ScoreCandidates(_, _, _, _)
(* mutant: a candidate that cannot be read ends the loop *)
ScoreCandidates_StopsAtMissing(st, query, fault, vectorResults) ==
    IF vectorResults = <<>> THEN <<>>
    ELSE LET vr == Head(vectorResults)
             similarityScore == FOneMinus(vr.Distance)
             Scored(got, triggerMatched) ==
                 IF got.err # NoErr \/ got.mem.ID = NoID THEN <<>>
                 ELSE <<[Memory |-> got.mem, SimilarityScore |-> similarityScore,
                         RelevanceScore |-> relevanceScore(got.mem, similarityScore, triggerMatched, goarch),
                         TriggerMatched |-> triggerMatched]>>
                      \o ScoreCandidates(st, query, fault, Tail(vectorResults))
             Hydrated(got) == Scored(got, checkTriggerMatch(query.Query, got.mem.TriggerPhrases))
         IN  Hydrated(EngineGetMemory(st, vr.ID, fault))

ScoreCandidates(st, query, fault, vectorResults) ==
    IF vectorResults = <<>> THEN <<>>
    ELSE LET vr == Head(vectorResults)
             rest == ScoreCandidates(st, query, fault, Tail(vectorResults))
             similarityScore == FOneMinus(vr.Distance)
             Scored(got, triggerMatched) ==
                 IF got.err # NoErr \/ got.mem.ID = NoID THEN rest
                 ELSE <<[Memory |-> got.mem, SimilarityScore |-> similarityScore,
                         RelevanceScore |-> relevanceScore(got.mem, similarityScore, triggerMatched, goarch),
                         TriggerMatched |-> triggerMatched]>> \o rest
             Hydrated(got) == Scored(got, checkTriggerMatch(query.Query, got.mem.TriggerPhrases))
         IN  Hydrated(EngineGetMemory(st, vr.ID, fault))

SearchLimit(query) == IF query.Limit = 0 THEN DefaultLimit ELSE query.Limit

SearchFilters(query) ==
    IF query.MinImportance > 0
    THEN [project_id |-> query.ProjectID, importance_gte |-> query.MinImportance]
    ELSE [project_id |-> query.ProjectID]

(* mutant: the sorted list is returned without truncation *)
RankAndLimit_NoTruncation(results, limit) ==
    [results |-> sortByRelevance(results), err |-> NoErr, panic |-> FALSE]

(* results[:limit] panics with "slice bounds out of range" when limit < 0 *)
RankAndLimit(results, limit) ==
    LET sorted == sortByRelevance(results)
    IN  IF Len(sorted) > limit
        THEN IF limit < 0
             THEN [results |-> <<>>, err |-> NoErr, panic |-> TRUE]
             ELSE [results |-> SubSeq(sorted, 1, limit), err |-> NoErr, panic |-> FALSE]
        ELSE [results |-> sorted, err |-> NoErr, panic |-> FALSE]

EngineSearchMemories(st, query, fault) ==
    IF fault = "embed"
    THEN [results |-> <<>>, err |-> Wrap("failed to generate query embedding", EmbedErr), panic |-> FALSE]
    ELSE IF fault = "weaviate"
    THEN [results |-> <<>>, err |-> Wrap("failed to search vector database", VecErr), panic |-> FALSE]
    ELSE RankAndLimit(
            ScoreCandidates(st, query, fault,
                WeaviateSearch(st.weaviate, embedLocal(query.Query), SearchLimit(query) * 2,
                               SearchFilters(query))),
            SearchLimit(query))

(* mutant: the project is created without looking the path up *)
GetOrCreateProject_AlwaysCreates(st, name, path, fault) ==
    LET project == [id |-> FreshProjectID(st), name |-> name, path |-> path]
    IN  IF fault = "sqlite" THEN [st |-> st, project |-> NoProject, err |-> SqlErr]
        ELSE [st |-> [st EXCEPT !.sqlite = SQLiteCreateProject(st.sqlite, project)],
              project |-> project, err |-> NoErr]

(* GetOrCreateProject: lookup by path, create on miss *)
GetOrCreateProject(st, name, path, fault) ==
    LET found == GetProjectByPath(st.sqlite, path)
        project == [id |-> FreshProjectID(st), name |-> name, path |-> path]
    IN  IF fault = "sqlite" THEN [st |-> st, project |-> NoProject, err |-> SqlErr]
        ELSE IF found # NoProject THEN [st |-> st, project |-> found, err |-> NoErr]
        ELSE [st |-> [st EXCEPT !.sqlite = SQLiteCreateProject(st.sqlite, project)],
              project |-> project, err |-> NoErr]

NoSession == [id |-> NoID, project_id |-> NoID, started_at |-> 0, ended_at |-> 0, duration_seconds |-> 0]

(* the columns of a row of sessions, as Scan fills the Session in *)
SessionOf(row) ==
    [id |-> row.id, project_id |-> row.project_id, started_at |-> row.started_at,
     ended_at |-> row.ended_at, duration_seconds |-> row.duration_seconds]

(* GetLastSession: WHERE project_id = ? ORDER BY started_at DESC LIMIT 1.  The
   rows of the project are read through idx_sessions_project, in the order of
   their rowids, and sorted; rows of equal started_at keep that order, so the
   one inserted first is returned. *)
GetLastSession(db, projectID) ==
    LET mine == {s \in db.sessions : s.project_id = projectID}
        latest == {s \in mine : \A t \in mine : t.started_at <= s.started_at}
    IN  IF mine = {} THEN NoSession
        ELSE SessionOf(CHOOSE s \in latest : \A t \in latest : s.rowid <= t.rowid)

MemoryIDsOf(results) == [i \in 1..Len(results) |-> results[i].Memory.ID]

(* GetSessionPrimer: the project, its last session, and the top memories found
   with the project name as the query; a failed search is ignored *)
GetSessionPrimer(st, projectID, fault) ==
    LET project == SQLiteGetProject(st.sqlite, projectID)
        lastSession == GetLastSession(st.sqlite, projectID)
        Primer(topMemories) ==
            [primer |-> [ProjectName |-> project.name,
                         HasLastSession |-> lastSession # NoSession /\ lastSession.ended_at # 0,
                         LastSessionDate |-> lastSession.ended_at,
                         TopMemories |-> IF topMemories.err = NoErr
                                         THEN MemoryIDsOf(topMemories.results) ELSE <<>>],
             err |-> NoErr]
    IN  IF fault = "sqlite" THEN [primer |-> <<>>, err |-> SqlErr]
        ELSE IF project = NoProject THEN [primer |-> <<>>, err |-> FmtErr("project not found")]
        ELSE Primer(EngineSearchMemories(st,
                        [Query |-> project.name, ProjectID |-> projectID,
                         Limit |-> PrimerLimit, MinImportance |-> PrimerMinImportance], fault))

----------------------------------------------------------------------------
(* Curator (internal/memory/curator.go) *)

(* the proposals are stored one by one; failAt is the position of the
   CreateMemory call that the fault strikes *)
RECURSIVE StoreProposals(_, _, _, _, _, _, _)
(* mutant: a failed CreateMemory does not stop the batch *)
StoreProposals_GoesOn(st, projectID, sessionID, proposals, i, fault, failAt) ==
    IF i > Len(proposals) THEN [st |-> st, ids |-> <<>>, err |-> NoErr]
    ELSE LET mem == [ID |-> FreshMemoryID(st), ProjectID |-> projectID, SessionID |-> sessionID,
                     Content |-> proposals[i].Content, Importance |-> proposals[i].Importance,
                     SemanticTags |-> proposals[i].SemanticTags,
                     TriggerPhrases |-> proposals[i].TriggerPhrases,
                     ActionRequired |-> proposals[i].ActionRequired]
             Stored(r) ==
                 LET Rest(rest) ==
                        IF r.err # NoErr
                        THEN [st |-> rest.st, ids |-> <<>>, err |-> Wrap("failed to store memory", r.err)]
                        ELSE [st |-> rest.st, ids |-> <<r.mem.ID>> \o rest.ids, err |-> rest.err]
                 IN  Rest(StoreProposals(r.st, projectID, sessionID, proposals, i + 1, fault, failAt))
         IN  Stored(EngineCreateMemory(st, mem, IF i = failAt THEN fault ELSE "none"))

StoreProposals(st, projectID, sessionID, proposals, i, fault, failAt) ==
    IF i > Len(proposals) THEN [st |-> st, ids |-> <<>>, err |-> NoErr]
    ELSE LET mem == [ID |-> FreshMemoryID(st), ProjectID |-> projectID, SessionID |-> sessionID,
                     Content |-> proposals[i].Content, Importance |-> proposals[i].Importance,
                     SemanticTags |-> proposals[i].SemanticTags,
                     TriggerPhrases |-> proposals[i].TriggerPhrases,
                     ActionRequired |-> proposals[i].ActionRequired]
             Stored(r) ==
                 LET rest == StoreProposals(r.st, projectID, sessionID, proposals, i + 1, fault, failAt)
                 IN  IF r.err # NoErr
                     THEN [st |-> r.st, ids |-> <<>>, err |-> Wrap("failed to store memory", r.err)]
                     ELSE [st |-> rest.st, ids |-> <<r.mem.ID>> \o rest.ids, err |-> rest.err]
         IN  Stored(EngineCreateMemory(st, mem, IF i = failAt THEN fault ELSE "none"))

(* mutant: index 0 is taken for invalid *)
EdgeInRange_Positive(rel, n) ==
    ~(rel.FromIndex <= 0 \/ rel.FromIndex >= n \/ rel.ToIndex <= 0 \/ rel.ToIndex >= n)

EdgeInRange(rel, n) ==
    ~(rel.FromIndex < 0 \/ rel.FromIndex >= n \/ rel.ToIndex < 0 \/ rel.ToIndex >= n)

RECURSIVE ValidRelationships(_, _)
ValidRelationships(rels, memoryIDs) ==
    IF rels = <<>> THEN <<>>
    ELSE LET rel == Head(rels)
             rest == ValidRelationships(Tail(rels), memoryIDs)
         IN  IF EdgeInRange(rel, Len(memoryIDs))
             THEN <<[FromID |-> memoryIDs[rel.FromIndex + 1], ToID |-> memoryIDs[rel.ToIndex + 1],
                     Type |-> rel.Type]>> \o rest
             ELSE rest

NoCuration == [Memories |-> <<>>, Relationships |-> <<>>, Summary |-> ""]

(* mutant: the proposals are stored although the AI call failed *)
CurateSession_StoresDespiteAIFailure(st, projectID, sessionID, aiResp, fault, failAt) ==
    LET Curated(stored) ==
            [st |-> stored.st, resp |-> NoCuration,
             err |-> Wrap("failed to curate memories with AI", AIErr)]
    IN  Curated(StoreProposals(st, projectID, sessionID, aiResp.Memories, 1, "none", failAt))

CurateSession(st, projectID, sessionID, aiResp, fault, failAt) ==
    LET Curated(stored) ==
            IF stored.err # NoErr
            THEN [st |-> stored.st, resp |-> NoCuration, err |-> stored.err]
            ELSE [st |-> stored.st,
                  resp |-> [Memories |-> stored.ids,
                            Relationships |-> ValidRelationships(aiResp.Relationships, stored.ids),
                            Summary |-> aiResp.Summary],
                  err |-> NoErr]
    IN  IF fault = "ai"
        THEN [st |-> st, resp |-> NoCuration, err |-> Wrap("failed to curate memories with AI", AIErr)]
        ELSE Curated(StoreProposals(st, projectID, sessionID, aiResp.Memories, 1, fault, failAt))

----------------------------------------------------------------------------
(* MCP handlers (internal/mcp): each returns (result, error), may change the
   stores, and may panic.  env carries what the environment decides during the
   request: the failing collaborator, the project file, the AI's answer. *)

NoResult == [kind |-> "none"]
HOk(st, result) == [st |-> st, result |-> result, err |-> NoErr, panic |-> FALSE]
HFail(st, err) == [st |-> st, result |-> NoResult, err |-> err, panic |-> FALSE]
HPanic(st) == [st |-> st, result |-> NoResult, err |-> NoErr, panic |-> TRUE]

(* json.Unmarshal of a raw member into a struct: fails on an absent member and
   on a member of the wrong type *)
Unmarshals(v) == ~IsAbsent(v) /\ "badtype" \notin DOMAIN v

ConfigName == TextOther
BaseName == TextWork

(* what os.ReadFile and json.Unmarshal return for a project file that exists
   and cannot be read, is not JSON, or has a name that is not a string *)
ReadFileErr == [cause |-> "read .alaala-project.json", gotype |-> "os.PathError"]
ConfigTypeErr == [cause |-> "cannot unmarshal number into Go struct field .name of type string",
                  gotype |-> "json.UnmarshalTypeError"]
ProjectFiles == {"none", "ok", "unreadable", "badjson", "badtype"}

(* getCurrentProjectID: the working directory, then the project file: without
   one the project is named after the directory; with one the file is read and
   parsed, each of which may fail, and the project has the name of the file *)
getCurrentProjectID(st, env) ==
    LET Return(got) == [st |-> got.st, id |-> got.project.id, err |-> got.err]
        Named(name) == Return(GetOrCreateProject(st, name, Cwd, env.fault))
    IN  IF env.fault = "env"
        THEN [st |-> st, id |-> NoID, err |-> Wrap("failed to get working directory", EnvErr)]
        ELSE IF env.file = "none" THEN Named(BaseName)
        ELSE IF env.file = "unreadable" THEN [st |-> st, id |-> NoID, err |-> ReadFileErr]
        ELSE IF env.file = "badjson" THEN [st |-> st, id |-> NoID, err |-> JSONErr]
        ELSE IF env.file = "badtype" THEN [st |-> st, id |-> NoID, err |-> ConfigTypeErr]
        ELSE Named(ConfigName)

handleInitialize(params, st, env) ==
    HOk(st, [kind |-> "initialize", protocolVersion |-> "2024-11-05"])

handleListTools(params, st, env) ==
    HOk(st, [kind |-> "tools",
             names |-> <<"search_memories", "save_memory", "curate_session", "list_projects">>])

handleListResources(params, st, env) ==
    HOk(st, [kind |-> "resources",
             names |-> <<"memory://session-context", "memory://project-memories">>])

handleListPrompts(params, st, env) ==
    HOk(st, [kind |-> "prompts", names |-> <<"session_primer">>])

(* mutant: the current project is resolved even when the arguments name one *)
SearchProject_Always(args, st, env) == getCurrentProjectID(st, env)

(* the project searched when the arguments name none is the current one *)
SearchProject(args, st, env) ==
    IF Field(args, "project_id", NoID) = NoID
    THEN getCurrentProjectID(st, env)
    ELSE [st |-> st, id |-> args.project_id, err |-> NoErr]

(* toolSearchMemories: the limit and the minimum importance after the
   "Default values" block; a member left out unmarshals as zero *)
SearchDefaults(args) ==
    [Limit |-> IF Field(args, "limit", 0) = 0 THEN ToolDefaultLimit ELSE args.limit,
     MinImportance |-> IF Field(args, "min_importance", 0) = 0
                       THEN ToolDefaultMinImportance ELSE args.min_importance]

toolSearchMemories(args, st, env) ==
    LET limit == SearchDefaults(args).Limit
        minImportance == SearchDefaults(args).MinImportance
        Format(proj, found) ==
            IF found.panic THEN HPanic(proj.st)
            ELSE IF found.err # NoErr THEN HFail(proj.st, Wrap("failed to search memories", found.err))
            ELSE HOk(proj.st, [kind |-> "search", memories |-> MemoryIDsOf(found.results)])
        Search(proj) ==
            IF proj.err # NoErr THEN HFail(proj.st, proj.err)
            ELSE Format(proj, EngineSearchMemories(proj.st,
                            [Query |-> Field(args, "query", TextEmpty), ProjectID |-> proj.id,
                             Limit |-> limit, MinImportance |-> minImportance], env.fault))
    IN  IF ~Unmarshals(args) THEN HFail(st, Wrap("invalid arguments", JSONErr))
        ELSE Search(SearchProject(args, st, env))

toolSaveMemory(args, st, env) ==
    LET importance == IF Field(args, "importance", 0) = 0
                      THEN ToolDefaultImportance ELSE args.importance
        mem == [ID |-> NoID, ProjectID |-> Field(args, "project_id", NoID), SessionID |-> NoID,
                Content |-> Field(args, "content", TextEmpty), Importance |-> importance,
                SemanticTags |-> Field(args, "tags", <<>>), TriggerPhrases |-> <<>>,
                ActionRequired |-> FALSE]
        Return(made) ==
            IF made.err # NoErr THEN HFail(made.st, Wrap("failed to create memory", made.err))
            ELSE HOk(made.st, [kind |-> "saved", id |-> made.mem.ID])
    IN  IF ~Unmarshals(args) THEN HFail(st, Wrap("invalid arguments", JSONErr))
        ELSE Return(EngineCreateMemory(st, mem, env.fault))

toolCurateSession(args, st, env) ==
    LET Return(done) ==
            IF done.err # NoErr THEN HFail(done.st, Wrap("failed to curate session", done.err))
            ELSE HOk(done.st, [kind |-> "curated", count |-> Len(done.resp.Memories),
                               summary |-> done.resp.Summary])
    IN  IF ~Unmarshals(args) THEN HFail(st, Wrap("invalid arguments", JSONErr))
        ELSE Return(CurateSession(st, Field(args, "project_id", NoID),
                                  Field(args, "session_id", NoID), env.ai, env.fault, env.failAt))

toolListProjects(args, st, env) ==
    HOk(st, [kind |-> "text", text |-> "Project listing not yet implemented"])

(* mutant: the default branch of the switch answers like list_projects *)
handleCallTool_Default(params, st, env) ==
    LET name == Field(params, "name", "")
        arguments == Field(params, "arguments", Absent)
    IN  IF ~Unmarshals(params) THEN HFail(st, Wrap("invalid tool call params", JSONErr))
        ELSE IF name = "search_memories" THEN toolSearchMemories(arguments, st, env)
        ELSE IF name = "save_memory" THEN toolSaveMemory(arguments, st, env)
        ELSE IF name = "curate_session" THEN toolCurateSession(arguments, st, env)
        ELSE toolListProjects(arguments, st, env)

handleCallTool(params, st, env) ==
    LET name == Field(params, "name", "")
        arguments == Field(params, "arguments", Absent)
    IN  IF ~Unmarshals(params) THEN HFail(st, Wrap("invalid tool call params", JSONErr))
        ELSE IF name = "search_memories" THEN toolSearchMemories(arguments, st, env)
        ELSE IF name = "save_memory" THEN toolSaveMemory(arguments, st, env)
        ELSE IF name = "curate_session" THEN toolCurateSession(arguments, st, env)
        ELSE IF name = "list_projects" THEN toolListProjects(arguments, st, env)
        ELSE HFail(st, FmtErr("unknown tool"))

resourceSessionContext(st, env) ==
    LET Format(proj, got) ==
            IF got.err # NoErr THEN HFail(proj.st, Wrap("failed to get session primer", got.err))
            ELSE HOk(proj.st, [kind |-> "session-context", primer |-> got.primer])
        Prime(proj) ==
            IF proj.err # NoErr THEN HFail(proj.st, proj.err)
            ELSE Format(proj, GetSessionPrimer(proj.st, proj.id, env.fault))
    IN  Prime(getCurrentProjectID(st, env))

resourceProjectMemories(st, env) ==
    LET Format(proj, found) ==
            IF found.err # NoErr THEN HFail(proj.st, Wrap("failed to get project memories", found.err))
            ELSE HOk(proj.st, [kind |-> "project-memories", memories |-> MemoryIDsOf(found.results)])
        Search(proj) ==
            IF proj.err # NoErr THEN HFail(proj.st, proj.err)
            ELSE Format(proj, EngineSearchMemories(proj.st,
                            [Query |-> TextEmpty, ProjectID |-> proj.id,
                             Limit |-> ProjectMemoriesLimit, MinImportance |-> 0], env.fault))
    IN  Search(getCurrentProjectID(st, env))

handleReadResource(params, st, env) ==
    LET uri == Field(params, "uri", "")
    IN  IF ~Unmarshals(params) THEN HFail(st, Wrap("invalid read resource params", JSONErr))
        ELSE IF uri = "memory://session-context" THEN resourceSessionContext(st, env)
        ELSE IF uri = "memory://project-memories" THEN resourceProjectMemories(st, env)
        ELSE HFail(st, FmtErr("unknown resource URI"))

promptSessionPrimer(st, env) ==
    LET Format(proj, got) ==
            IF got.err # NoErr THEN HFail(proj.st, Wrap("failed to get session primer", got.err))
            ELSE HOk(proj.st, [kind |-> "prompt", primer |-> got.primer])
        Prime(proj) ==
            IF proj.err # NoErr THEN HFail(proj.st, proj.err)
            ELSE Format(proj, GetSessionPrimer(proj.st, proj.id, env.fault))
    IN  Prime(getCurrentProjectID(st, env))

handleGetPrompt(params, st, env) ==
    LET name == Field(params, "name", "")
    IN  IF ~Unmarshals(params) THEN HFail(st, Wrap("invalid get prompt params", JSONErr))
        ELSE IF name = "session_primer" THEN promptSessionPrimer(st, env)
        ELSE HFail(st, FmtErr("unknown prompt"))

(* registerHandlers: the routing table *)
handlers ==
    {"tools/list", "tools/call", "resources/list", "resources/read",
     "prompts/list", "prompts/get", "initialize"}

CallHandler(method, params, st, env) ==
    CASE method = "tools/list" -> handleListTools(params, st, env)
      [] method = "tools/call" -> handleCallTool(params, st, env)
      [] method = "resources/list" -> handleListResources(params, st, env)
      [] method = "resources/read" -> handleReadResource(params, st, env)
      [] method = "prompts/list" -> handleListPrompts(params, st, env)
      [] method = "prompts/get" -> handleGetPrompt(params, st, env)
      [] method = "initialize" -> handleInitialize(params, st, env)

(* json.Marshal of the error value passed as Data: only exported fields of the
   dynamic type are written, and the errors made by fmt.Errorf have none *)
MarshalData(err) ==
    CASE err.gotype = "nil" -> "omitted"
      [] err.gotype = "fmt" -> "{}"
      [] err.gotype = "json.SyntaxError" -> "{Offset}"
      [] err.gotype = "json.UnmarshalTypeError" -> "{Value,Type,Offset,Struct,Field}"
      [] err.gotype = "sqlite3.Error" -> "{Code,ExtendedCode,SystemErrno}"
      [] err.gotype = "os.PathError" -> "{Op,Path,Err}"

sendError(id, code, message, data) ==
    [id |-> id, code |-> code, message |-> message, data |-> MarshalData(data), result |-> NoResult]

sendResult(id, result) ==
    [id |-> id, code |-> 0, message |-> <<>>, data |-> "omitted", result |-> result]

----------------------------------------------------------------------------
(* Inputs of the dispatch loop *)

IDs == {NullID, 1, 2}

(* an optional member of a JSON object: left out, or present with a value *)
Opt(name, values) == {<<>>} \cup {name :> v : v \in values}

SearchArguments(st) ==
    {Absent} \cup
    {[query |-> TextJWT] @@ l @@ p @@ m :
        l \in Opt("limit", {-1, 0, 1}), p \in Opt("project_id", ProjectIDs(st.sqlite)),
        m \in Opt("min_importance", {0, 7})}

SaveArguments(st) ==
    {Absent} \cup
    {[content |-> TextJWT, project_id |-> p] @@ i @@ t :
        p \in ProjectIDs(st.sqlite) \cup {NoSuchProject},
        i \in Opt("importance", {0, 2, 15}), t \in Opt("tags", {<<TagB, TagA>>})}

CurateArguments(st) ==
    {Absent} \cup {[transcript |-> "t", project_id |-> p] : p \in ProjectIDs(st.sqlite)}

ToolCalls(st) ==
    {Absent, [name |-> "nonexistent_tool", arguments |-> Absent],
     [name |-> "list_projects", arguments |-> Absent]}
    \cup {[name |-> "search_memories", arguments |-> a] : a \in SearchArguments(st)}
    \cup {[name |-> "save_memory", arguments |-> a] : a \in SaveArguments(st)}
    \cup {[name |-> "curate_session", arguments |-> a] : a \in CurateArguments(st)}

ResourceReads ==
    {Absent, [uri |-> "memory://nope"], [uri |-> "memory://session-context"],
     [uri |-> "memory://project-memories"]}

PromptGets == {Absent, [name |-> "nope"], [name |-> "session_primer"]}

ParamsOf(method, st) ==
    CASE method = "tools/call" -> ToolCalls(st)
      [] method = "resources/read" -> ResourceReads
      [] method = "prompts/get" -> PromptGets
      [] OTHER -> {Absent}

Methods == handlers \cup {"bogus/method"}

Requests(st) ==
    UNION {{[kind |-> "request", id |-> i, method |-> m, params |-> p] :
                i \in IDs, p \in ParamsOf(m, st)} : m \in Methods}

MalformedLines == {[kind |-> "malformed", gotype |-> t] :
                      t \in {"json.SyntaxError", "json.UnmarshalTypeError"}}

NoLine == [kind |-> "none"]

(* what the AI client may answer *)
ProposalJWT == [Content |-> TextJWT, Importance |-> 9, SemanticTags |-> <<TagA>>,
                TriggerPhrases |-> <<TextJwtLower>>, ActionRequired |-> TRUE]
ProposalDb == [Content |-> TextDb, Importance |-> 5, SemanticTags |-> <<>>,
               TriggerPhrases |-> <<>>, ActionRequired |-> FALSE]
Edge(f, t) == [FromIndex |-> f, ToIndex |-> t, Type |-> "related_to"]
AIResponses ==
    {[Memories |-> <<>>, Relationships |-> <<Edge(0, 0)>>, Summary |-> "s0"],
     [Memories |-> <<ProposalJWT>>, Relationships |-> <<Edge(0, 0), Edge(0, 1)>>, Summary |-> "s1"],
     [Memories |-> <<ProposalJWT, ProposalDb>>,
      Relationships |-> <<Edge(0, 1), Edge(1, 2), Edge(-1, 0)>>, Summary |-> "s2"]}

NoEnv == [fault |-> "none", file |-> "none",
          ai |-> [Memories |-> <<>>, Relationships |-> <<>>, Summary |-> ""], failAt |-> 1]

StoreFaults == {"none", "embed", "sqlite", "weaviate"}

(* the environment a request can meet: only the collaborators its handler calls *)
EnvsFor(r) ==
    LET tool == IF r.method = "tools/call" THEN Field(r.params, "name", "") ELSE ""
    IN  IF tool = "curate_session"
        THEN {[fault |-> f, file |-> "none", ai |-> a, failAt |-> k] :
                f \in StoreFaults \cup {"ai"}, a \in AIResponses, k \in 1..2}
        ELSE IF tool = "save_memory"
        THEN {[NoEnv EXCEPT !.fault = f] : f \in StoreFaults}
        ELSE IF tool = "search_memories" \/ r.method \in {"resources/read", "prompts/get"}
        THEN {[NoEnv EXCEPT !.fault = f, !.file = x] :
                f \in StoreFaults \cup {"env"}, x \in ProjectFiles}
        ELSE {NoEnv}

----------------------------------------------------------------------------
(* The dispatch loop (Server.Run, Server.handleRequest) *)

VARIABLES
    pc,        \* "read", "dispatch", "respond", "stopped", "failed", "panicked"
    req,       \* the request of the current iteration (none after a malformed line)
    pending,   \* what its handler returned
    nread,     \* lines read from the reader
    started,   \* handler invocations
    written,   \* responses written to the writer
    last,      \* the last response written
    tail,      \* the unterminated text ReadString returned together with io.EOF
    sqlite,    \* the relational store
    weaviate,  \* the vector store
    ret,       \* what the last call of the engine's API returned
    created    \* history: the memories whose creation succeeded, as they were passed

vars == <<pc, req, pending, nread, started, written, last, tail, sqlite, weaviate, ret, created, goarch>>

Stores == [sqlite |-> sqlite, weaviate |-> weaviate]

NoRequest == [kind |-> "none", id |-> NullID, method |-> "", params |-> Absent]
NoPending == [result |-> NoResult, err |-> NoErr]
NoResponse == [id |-> NullID, code |-> 0, message |-> <<>>, data |-> "omitted", result |-> NoResult]

NoReturn == [op |-> "none", id |-> NoID, mem |-> NilMemory, err |-> NoErr]

OtherProject == [id |-> 1, name |-> TextOther, path |-> OtherPath]

(* The database file outlives the process: it is new, or it holds the project
   of another working directory. *)
Init ==
    /\ pc = "read"
    /\ req = NoRequest
    /\ pending = NoPending
    /\ nread = 0
    /\ started = 0
    /\ written = 0
    /\ last = NoResponse
    /\ tail = NoLine
    /\ sqlite \in {EmptySQLite, [EmptySQLite EXCEPT !.projects = {OtherProject}]}
    /\ weaviate = {}
    /\ ret = NoReturn
    /\ created = {}
    /\ goarch = "amd64"  \* no score is computed from here: Search returns no candidate

(* ReadString returned a line that does not unmarshal into a request *)
ReadMalformed ==
    /\ pc = "read"
    /\ nread < MaxLines
    /\ \E line \in MalformedLines :
        /\ last' = sendError(NullID, ParseErrorCode, <<"Parse error">>,
                             [cause |-> "invalid JSON", gotype |-> line.gotype])
        /\ written' = written + 1
    /\ nread' = nread + 1
    /\ req' = NoRequest
    /\ UNCHANGED <<pc, pending, started, tail, sqlite, weaviate, ret, created, goarch>>

(* mutant: the next line is read while the previous response is still unwritten *)
ReadRequest_Pipelined ==
    /\ pc \in {"read", "respond"}
    /\ nread < MaxLines
    /\ \E line \in Requests(Stores) : req' = line
    /\ nread' = nread + 1
    /\ pc' = "dispatch"
    /\ UNCHANGED <<pending, started, written, last, tail, sqlite, weaviate, ret, created, goarch>>

(* ReadString returned a line that unmarshals into a request *)
ReadRequest ==
    /\ pc = "read"
    /\ nread < MaxLines
    /\ \E line \in Requests(Stores) : req' = line
    /\ nread' = nread + 1
    /\ pc' = "dispatch"
    /\ UNCHANGED <<pending, started, written, last, tail, sqlite, weaviate, ret, created, goarch>>

(* ReadString returned io.EOF, possibly with text that has no newline *)
ReadEOF ==
    /\ pc = "read"
    /\ \E rest \in {NoLine, [kind |-> "request", id |-> 1, method |-> "initialize", params |-> Absent]}
                   \cup MalformedLines : tail' = rest
    /\ pc' = "stopped"
    /\ UNCHANGED <<req, pending, nread, started, written, last, sqlite, weaviate, ret, created, goarch>>

(* ReadString returned another error: Run returns it *)
ReadFailure ==
    /\ pc = "read"
    /\ pc' = "failed"
    /\ UNCHANGED <<req, pending, nread, started, written, last, tail, sqlite, weaviate, ret, created, goarch>>

(* mutant: the error for an unknown method is sent with a nil id *)
MethodNotFound_NilID ==
    /\ pc = "dispatch"
    /\ req.method \notin handlers
    /\ last' = sendError(NullID, MethodNotFoundCode, <<"Method not found">>, NoErr)
    /\ written' = written + 1
    /\ pc' = "read"
    /\ UNCHANGED <<req, pending, nread, started, tail, sqlite, weaviate, ret, created, goarch>>

(* handleRequest: no handler for the method *)
MethodNotFound ==
    /\ pc = "dispatch"
    /\ req.method \notin handlers
    /\ last' = sendError(req.id, MethodNotFoundCode, <<"Method not found">>, NoErr)
    /\ written' = written + 1
    /\ pc' = "read"
    /\ UNCHANGED <<req, pending, nread, started, tail, sqlite, weaviate, ret, created, goarch>>

(* what a successful save_memory passed to CreateMemory *)
SavedMemory(args, id) ==
    [ID |-> id, ProjectID |-> args.project_id, Content |-> args.content,
     Importance |-> IF Field(args, "importance", 0) = 0 THEN ToolDefaultImportance ELSE args.importance,
     SemanticTags |-> Field(args, "tags", <<>>)]

(* handleRequest: the handler runs to its return, or panics *)
RunHandler ==
    /\ pc = "dispatch"
    /\ req.method \in handlers
    /\ \E env \in EnvsFor(req) :
        \E out \in {CallHandler(req.method, req.params, Stores, env)} :
            /\ Cardinality(out.st.sqlite.memories) <= MaxMemories
            /\ sqlite' = out.st.sqlite
            /\ weaviate' = out.st.weaviate
            /\ IF out.panic
               THEN pc' = "panicked" /\ pending' = NoPending
               ELSE pc' = "respond" /\ pending' = [result |-> out.result, err |-> out.err]
            /\ created' = IF out.result.kind = "saved"
                          THEN created \cup {SavedMemory(req.params.arguments, out.result.id)}
                          ELSE created
    /\ started' = started + 1
    /\ UNCHANGED <<req, nread, written, last, tail, ret, goarch>>

(* handleRequest: the response for what the handler returned *)
Respond ==
    /\ pc = "respond"
    /\ last' = IF pending.err # NoErr
               THEN sendError(req.id, InternalErrorCode, <<"Internal error">>, pending.err)
               ELSE sendResult(req.id, pending.result)
    /\ written' = written + 1
    /\ pc' = "read"
    /\ pending' = NoPending
    /\ UNCHANGED <<req, nread, started, tail, sqlite, weaviate, ret, created, goarch>>

Next ==
    \/ ReadMalformed
    \/ ReadRequest
    \/ ReadEOF
    \/ ReadFailure
    \/ MethodNotFound
    \/ RunHandler
    \/ Respond

Spec == Init /\ [][Next]_vars

----------------------------------------------------------------------------
(* Properties of the dispatch loop *)

IsToolCall(r, tool) == r.method = "tools/call" /\ Field(r.params, "name", "") = tool
ArgumentsOf(r) == Field(r.params, "arguments", Absent)
Mutating(r) == IsToolCall(r, "save_memory") \/ IsToolCall(r, "curate_session")
Handling == pc \in {"dispatch", "respond"}

(* C1: every line that parses as a request gets exactly one response, and the
   response carries the id of the request: while a request is handled nothing
   is written, and the step that ends its handling writes one response with
   the request's id. *)
C1_ExactlyOneResponse ==
    [][Handling =>
        IF pc' \in {"dispatch", "respond"}
        THEN written' = written
        ELSE written' = written + 1 /\ last'.id = req.id]_vars

(* C2: a line that is not valid JSON for a request yields exactly one error
   response with code -32700 and a null id, no handler is invoked, the loop
   goes on reading, and the valid line that follows is answered. *)
C2_ParseErrorThenNextLine ==
    [][/\ ReadMalformed =>
            /\ written' = written + 1
            /\ last'.code = ParseErrorCode
            /\ last'.id = NullID
            /\ started' = started
            /\ pc' = "read"
       /\ (Handling /\ last.code = ParseErrorCode) =>
            pc' \in {"dispatch", "respond", "read"}]_vars

(* C3: responses are written in the order of the requests: when the handler of
   a line starts every earlier line has its response, each response written is
   the one of the latest line read, and at most one line is unanswered. *)
C3_ResponsesInOrder ==
    [][/\ started' # started => written = nread - 1
       /\ written' # written => written' = nread'
       /\ nread' - written' \in {0, 1}]_vars

C3_Witness == pc = "respond" /\ started = 2 /\ written = 1 /\ nread = 2

(* C4: the dispatch loop never crashes because of the content of a request *)
C4_NeverCrashes == pc # "panicked"

ResolvesCurrentProject(r) ==
    \/ IsToolCall(r, "search_memories") /\ Field(ArgumentsOf(r), "project_id", NoID) = NoID
    \/ r.method = "resources/read"
       /\ Field(r.params, "uri", "") \in {"memory://session-context", "memory://project-memories"}
    \/ r.method = "prompts/get" /\ Field(r.params, "name", "") = "session_primer"

(* C5 as stated: only save_memory and curate_session change durable state;
   every other request leaves both stores as they were. *)
C5_OnlySaveAndCurateWrite ==
    [][(pc = "dispatch" /\ ~Mutating(req)) => (sqlite' = sqlite /\ weaviate' = weaviate)]_vars

(* C5 as amended: a request other than save_memory and curate_session leaves
   the vector store and the sessions, memories, tags, triggers and
   relationships as they were; it changes the projects only by adding the
   record of the working directory when there is none, and only when it
   resolves the current project. *)
C5_ReadersAddOnlyTheCurrentProject ==
    [][(pc = "dispatch" /\ ~Mutating(req)) =>
        /\ weaviate' = weaviate
        /\ \/ sqlite' = sqlite
           \/ /\ ResolvesCurrentProject(req)
              /\ GetProjectByPath(sqlite, Cwd) = NoProject
              /\ \E p \in sqlite'.projects :
                    /\ p.path = Cwd
                    /\ sqlite' = [sqlite EXCEPT !.projects = @ \cup {p}]]_vars

C5_Witness ==
    /\ started = 1
    /\ pc = "respond"
    /\ IsToolCall(req, "search_memories")
    /\ pending.err = NoErr
    /\ \E p \in sqlite.projects : p.path = Cwd

(* C6: a request whose method is not in the routing table yields an error
   response with code -32601 and the request's id; no handler runs and no
   state changes. *)
C6_MethodNotFound ==
    [][(pc = "dispatch" /\ req.method \notin handlers) =>
        /\ written' = written + 1
        /\ last'.code = MethodNotFoundCode
        /\ last'.id = req.id
        /\ started' = started
        /\ sqlite' = sqlite
        /\ weaviate' = weaviate]_vars

C6_Witness ==
    /\ pc = "read"
    /\ req.method = "bogus/method"
    /\ req.id = 2
    /\ last.code = MethodNotFoundCode
    /\ last.id = 2

UnknownName(r) ==
    /\ Unmarshals(r.params)
    /\ \/ /\ r.method = "tools/call"
          /\ Field(r.params, "name", "") \notin
                {"search_memories", "save_memory", "curate_session", "list_projects"}
       \/ /\ r.method = "resources/read"
          /\ Field(r.params, "uri", "") \notin
                {"memory://session-context", "memory://project-memories"}
       \/ /\ r.method = "prompts/get"
          /\ Field(r.params, "name", "") # "session_primer"

(* C7 as stated: an unknown tool name, resource uri or prompt name yields an
   error response whose code is -32601. *)
C7_UnknownNameIsNotFound ==
    [][(pc = "respond" /\ UnknownName(req)) => last'.code = MethodNotFoundCode]_vars

(* C7 as amended: an unknown tool name, resource uri or prompt name yields one
   error response with the request's id whose code is -32603. *)
C7_UnknownNameIsInternalError ==
    [][(Handling /\ UnknownName(req)) =>
        \/ pc = "dispatch" /\ pc' = "respond" /\ pending'.err # NoErr
        \/ /\ pc = "respond"
           /\ written' = written + 1
           /\ last'.code = InternalErrorCode
           /\ last'.id = req.id]_vars

C7_Witness ==
    /\ pc = "read"
    /\ IsToolCall(req, "nonexistent_tool")
    /\ last.code = InternalErrorCode
    /\ last.id = req.id
    /\ written = nread

(* C8: when a handler fails, the response is an error with code -32603 whose
   message includes the wrapped cause of the failure. *)
C8_ErrorMessageCarriesCause ==
    [][(pc = "respond" /\ pending.err # NoErr) =>
        /\ last'.code = InternalErrorCode
        /\ pending.err.cause \in SeqToSet(last'.message)]_vars

(* C9: after a successful save_memory for an existing project, a later
   search_memories in the same project whose query is the content (default
   limit, the memory's importance not below the default minimum) returns that
   memory. *)
C9_SavedMemoryIsFound ==
    \A c \in created :
        (/\ pc = "respond"
         /\ IsToolCall(req, "search_memories")
         /\ ArgumentsOf(req) = [query |-> c.Content, project_id |-> c.ProjectID]
         /\ c.Importance >= ToolDefaultMinImportance
         /\ pending.err = NoErr)
        => c.ID \in SeqToSet(pending.result.memories)

(* the project a search_memories request is for: the one its arguments name,
   or else the one of the working directory *)
QueriedProject(r) ==
    IF Field(ArgumentsOf(r), "project_id", NoID) # NoID
    THEN ArgumentsOf(r).project_id
    ELSE GetProjectByPath(sqlite, Cwd).id

(* C15: every memory a search returns belongs to the project of the query,
   whatever was saved into other projects before. *)
C15_ResultsOfTheQueriedProject ==
    (pc = "respond" /\ IsToolCall(req, "search_memories") /\ pending.err = NoErr) =>
        \A id \in SeqToSet(pending.result.memories) :
            \E m \in sqlite.memories : m.id = id /\ m.project_id = QueriedProject(req)

C15_Witness ==
    /\ pc = "respond"
    /\ IsToolCall(req, "search_memories")
    /\ pending.err = NoErr
    /\ \E m \in sqlite.memories :
        /\ m.project_id # QueriedProject(req)
        /\ m.content = Field(ArgumentsOf(req), "query", TextEmpty)
        /\ m.id \in WeaviateIDs(weaviate)
    /\ QueriedProject(req) \in ProjectIDs(sqlite)

----------------------------------------------------------------------------
(* The engine's API called directly (internal/memory/engine.go) *)

NoSuchMemory == 8

MemoryInputs(st) ==
    [ID : {NoID, 1},
     ProjectID : ProjectIDs(st.sqlite) \cup {NoSuchProject},
     SessionID : {NoID},
     Content : {TextJWT, TextDb},
     Importance : {5},
     SemanticTags : {<<>>, <<TagA>>, <<TagB, TagA>>, <<TagA, TagA>>},
     TriggerPhrases : {<<>>},
     ActionRequired : {FALSE}]

InitEngine ==
    /\ pc = "api"
    /\ req = NoRequest
    /\ pending = NoPending
    /\ nread = 0
    /\ started = 0
    /\ written = 0
    /\ last = NoResponse
    /\ tail = NoLine
    /\ sqlite \in {EmptySQLite, [EmptySQLite EXCEPT !.projects = {OtherProject}]}
    /\ weaviate = {}
    /\ ret = NoReturn
    /\ created = {}
    /\ goarch = "amd64"  \* no score is computed from here: Search returns no candidate

loopVars == <<pc, req, pending, nread, started, written, last, tail>>

CallCreateMemory ==
    /\ pc = "api"
    /\ \E mem \in MemoryInputs(Stores), fault \in StoreFaults :
        \E r \in {EngineCreateMemory(Stores, mem, fault)} :
            /\ Cardinality(r.st.sqlite.memories) <= MaxMemories
            /\ sqlite' = r.st.sqlite
            /\ weaviate' = r.st.weaviate
            /\ ret' = [op |-> "CreateMemory", id |-> r.mem.ID, mem |-> NilMemory, err |-> r.err]
            /\ created' = IF r.err = NoErr
                          THEN created \cup {[ID |-> r.mem.ID, ProjectID |-> mem.ProjectID,
                                              Content |-> mem.Content, Importance |-> mem.Importance,
                                              SemanticTags |-> mem.SemanticTags]}
                          ELSE created
    /\ UNCHANGED <<loopVars, goarch>>

CallGetMemory ==
    /\ pc = "api"
    /\ \E id \in MemoryIDs(sqlite) \cup {NoSuchMemory}, fault \in {"none", "sqlite"} :
        \E r \in {EngineGetMemory(Stores, id, fault)} :
            ret' = [op |-> "GetMemory", id |-> id, mem |-> r.mem, err |-> r.err]
    /\ UNCHANGED <<loopVars, sqlite, weaviate, created, goarch>>

CallGetOrCreateProject ==
    /\ pc = "api"
    /\ \E name \in {TextWork}, path \in {Cwd, OtherPath}, fault \in {"none", "sqlite"} :
        \E r \in {GetOrCreateProject(Stores, name, path, fault)} :
            /\ sqlite' = r.st.sqlite
            /\ ret' = [op |-> "GetOrCreateProject", id |-> r.project.id, mem |-> NilMemory,
                        err |-> r.err, path |-> path]
    /\ UNCHANGED <<loopVars, weaviate, created, goarch>>

(* WeaviateStore.Delete is part of the VectorStore interface; the engine never
   calls it, a caller that holds the store may *)
CallDelete ==
    /\ pc = "api"
    /\ \E id \in WeaviateIDs(weaviate) \cup {NoSuchMemory}, fault \in {"none", "weaviate"} :
        \E r \in {WeaviateDelete(weaviate, id, fault)} :
            /\ weaviate' = r.w
            /\ ret' = [op |-> "Delete", id |-> NoID, mem |-> NilMemory, err |-> r.err]
    /\ UNCHANGED <<loopVars, sqlite, created, goarch>>

NextEngine ==
    \/ CallCreateMemory
    \/ CallGetMemory
    \/ CallGetOrCreateProject
    \/ CallDelete

SpecEngine == InitEngine /\ [][NextEngine]_vars

(* C10: for every memory whose CreateMemory succeeded, GetMemory with its id
   returns a memory whose content, importance and tags equal those passed. *)
C10_GetMemoryReturnsWhatWasCreated ==
    (ret.op = "GetMemory" /\ ret.err = NoErr) =>
        \A c \in created :
            c.ID = ret.id =>
                /\ ret.mem.ID = c.ID
                /\ ret.mem.Content = c.Content
                /\ ret.mem.Importance = c.Importance
                /\ ret.mem.SemanticTags = c.SemanticTags

----------------------------------------------------------------------------
(* Engine.SearchMemories over a vector store that returns candidates
   (internal/memory/engine.go) *)

MaxCandidates == 3

TextADb == <<97, 32, 100, 66>>

(* the memories created before the searches: project 2 is the project of the
   queries, project 1 another one *)
Catalogue ==
    <<[ID |-> NoID, ProjectID |-> 2, SessionID |-> NoID, Content |-> TextJWT, Importance |-> 5,
       SemanticTags |-> <<>>, TriggerPhrases |-> <<>>, ActionRequired |-> FALSE],
      [ID |-> NoID, ProjectID |-> 2, SessionID |-> NoID, Content |-> TextDb, Importance |-> 5,
       SemanticTags |-> <<>>, TriggerPhrases |-> <<>>, ActionRequired |-> FALSE],
      [ID |-> NoID, ProjectID |-> 2, SessionID |-> NoID, Content |-> TextJWT, Importance |-> 8,
       SemanticTags |-> <<TagA>>, TriggerPhrases |-> <<TextJwtLower>>, ActionRequired |-> TRUE],
      [ID |-> NoID, ProjectID |-> 1, SessionID |-> NoID, Content |-> TextDb, Importance |-> 5,
       SemanticTags |-> <<>>, TriggerPhrases |-> <<TextDb>>, ActionRequired |-> FALSE],
      [ID |-> NoID, ProjectID |-> 2, SessionID |-> NoID, Content |-> TextDb, Importance |-> 2,
       SemanticTags |-> <<>>, TriggerPhrases |-> <<TextWork, TextDb>>, ActionRequired |-> FALSE],
      [ID |-> NoID, ProjectID |-> 2, SessionID |-> NoID, Content |-> TextJWT, Importance |-> 5,
       SemanticTags |-> <<>>, TriggerPhrases |-> <<>>, ActionRequired |-> TRUE]>>

(* The engine takes its candidates from a VectorStore, an interface, as Search
   returns them.  Nothing holds the list to the filters: the engine does not
   look at the project or the importance of a candidate, and the store of the
   repository sends no where clause and tests the key "projectId", which no
   writer writes.  The lists a store that holds the objects w can return for
   this limit: at most limit objects (and at most MaxCandidates, or else all
   of them in id order at one distance), each at a distance the cosine metric
   can give (0.0, 0.5 or 2.0), nearest first, objects at the same distance in
   any order; the complete list also at 1.0 - 0.9, which is no multiple of a
   tenth. *)
vectorResults(w, limit) ==
    LET n == IF limit < 0 THEN 0 ELSE Min(Min(limit, MaxCandidates), Cardinality(w))
        Picks(k) == {s \in [1..k -> w] : \A i, j \in 1..k : i # j => s[i] # s[j]}
        Nearest(k) == {d \in [1..k -> {0, 5, 20}] : \A i, j \in 1..k : i < j => d[i] <= d[j]}
        Listed(k) == {[i \in 1..k |-> [ID |-> s[i].id, Distance |-> FTenths(d[i])]] :
                        s \in Picks(k), d \in Nearest(k)}
        ById == CHOOSE s \in Orders(w) : \A i, j \in 1..Len(s) : i < j => s[i].id < s[j].id
        Complete == IF Cardinality(w) <= limit
                    THEN {[i \in 1..Len(ById) |-> [ID |-> ById[i].id, Distance |-> d]] :
                            d \in {FTenths(0), FTenths(5), FTenths(20), FOneMinus(FTenths(9))}}
                    ELSE {}
    IN  UNION {Listed(k) : k \in 0..n} \cup Complete

InitSearch ==
    /\ pc = "search"
    /\ req = NoRequest
    /\ pending = NoPending
    /\ nread = 0
    /\ started = 0
    /\ written = 0
    /\ last = NoResponse
    /\ tail = NoLine
    /\ sqlite = [EmptySQLite EXCEPT !.projects =
                    {OtherProject, [id |-> 2, name |-> TextWork, path |-> Cwd]}]
    /\ weaviate = {}
    /\ ret = NoReturn
    /\ created = {}
    /\ goarch \in ReleasedArchitectures

(* CreateMemory of the next memory of the catalogue *)
CreateCatalogued ==
    /\ pc = "search"
    /\ Cardinality(sqlite.memories) < Len(Catalogue)
    /\ \E r \in {EngineCreateMemory(Stores, Catalogue[Cardinality(sqlite.memories) + 1], "none")} :
        /\ sqlite' = r.st.sqlite
        /\ weaviate' = r.st.weaviate
        /\ ret' = [op |-> "CreateMemory", id |-> r.mem.ID, mem |-> NilMemory, err |-> r.err]
    /\ UNCHANGED <<loopVars, created, goarch>>

(* an object of the vector store that this database has no row for: the store
   is a service of its own and outlives the SQLite file *)
StrayObject ==
    [id |-> NoSuchMemory, vector |-> embedLocal(TextJWT),
     properties |-> [project_id |-> 2, content |-> TextJWT, importance |-> 5,
                     action_required |-> FALSE, tags |-> <<>>, trigger_phrases |-> <<>>]]

(* SearchMemories: the filters and the limit, the candidates Search returned,
   then GetMemory, scoring, sorting and truncation.  Failing reads and the
   stray object are tried with one of the queries. *)
CallSearchMemories ==
    /\ pc = "search"
    /\ \E query \in [Query : {TextJWT, TextADb}, ProjectID : {2}, Limit : {-1, 0, 1, 2},
                     MinImportance : {0, ToolDefaultMinImportance}],
          fault \in {"none", "sqlite"}, held \in {weaviate, weaviate \cup {StrayObject}} :
        /\ (fault # "none" \/ held # weaviate) =>
               (query.Query = TextJWT /\ query.MinImportance = 0 /\ query.Limit = 1)
        /\ \E found \in vectorResults(held, SearchLimit(query) * 2) :
            \E out \in {RankAndLimit(ScoreCandidates(Stores, query, fault, found),
                                     SearchLimit(query))} :
                /\ ret' = [op |-> "SearchMemories", query |-> query, candidates |-> found,
                            fault |-> fault,
                            results |-> out.results, err |-> out.err, panic |-> out.panic]
                /\ pc' = IF out.panic THEN "panicked" ELSE "returned"
    /\ UNCHANGED <<req, pending, nread, started, written, last, tail, sqlite, weaviate, created, goarch>>

(* the caller takes the results and goes on *)
SearchReturned ==
    /\ pc = "returned"
    /\ pc' = "search"
    /\ ret' = NoReturn
    /\ UNCHANGED <<req, pending, nread, started, written, last, tail, sqlite, weaviate, created, goarch>>

NextSearch ==
    \/ CreateCatalogued
    \/ CallSearchMemories
    \/ SearchReturned

SpecSearch == InitSearch /\ [][NextSearch]_vars

Searched == ret.op = "SearchMemories" /\ ~ret.panic /\ ret.err = NoErr

Row(id) == CHOOSE m \in sqlite.memories : m.id = id
CandidateOf(id) == CHOOSE c \in SeqToSet(ret.candidates) : c.ID = id

(* C11: every result of SearchMemories has a relevance score between 0.0 and
   1.0 inclusive. *)
C11_RelevanceWithinUnitInterval ==
    Searched => \A i \in 1..Len(ret.results) :
        ~FLess(ret.results[i].RelevanceScore, FZero) /\ ~FLess(FOne, ret.results[i].RelevanceScore)

(* C12: the list returned by SearchMemories is in non-increasing order of
   relevance score. *)
C12_SortedByRelevance ==
    Searched => \A i, j \in 1..Len(ret.results) :
        i < j => ~FLess(ret.results[i].RelevanceScore, ret.results[j].RelevanceScore)

C12_Witness ==
    /\ Searched
    /\ Len(ret.results) = 3
    /\ Len(ret.candidates) = 3
    /\ ret.results[1].Memory.ID = ret.candidates[3].ID
    /\ ret.results[3].Memory.ID = ret.candidates[1].ID
    /\ FLess(ret.results[2].RelevanceScore, ret.results[1].RelevanceScore)
    /\ FLess(ret.results[3].RelevanceScore, ret.results[2].RelevanceScore)

(* C13: results of equal relevance score come in ascending order of memory
   id, so that the list does not depend on the order of the candidates. *)
C13_TiesInAscendingID ==
    Searched => \A i \in 1..(Len(ret.results) - 1) :
        ret.results[i].RelevanceScore = ret.results[i + 1].RelevanceScore
            => ret.results[i].Memory.ID < ret.results[i + 1].Memory.ID

(* C14: SearchMemories returns at most limit results, where limit is the
   limit of the query, or 5 when that is zero. *)
C14_AtMostLimitResults ==
    Searched => Len(ret.results) <= (IF ret.query.Limit = 0 THEN 5 ELSE ret.query.Limit)

C14_Witness ==
    /\ Searched
    /\ ret.query.Limit = 0
    /\ Len(ret.candidates) = 6
    /\ Len(ret.results) = 5

(* two binary numbers differ by at most 2^-46 *)
BinNear(x, y) == ~BinLess(Bin(FALSE, <<1>>, -46), BinAbs(BinAdd(x, BinNeg(y))))

(* ten times min(1.0, the sum of the formula), in exact arithmetic over the
   float64 values of the similarity and of the stored importance *)
TenfoldFormula(similarity, importance, triggerMatched, actionRequired) ==
    LET AtMostTen(sum) == IF BinLess(BinOfInt(10), sum) THEN BinOfInt(10) ELSE sum
    IN  AtMostTen(BinAdd(BinAdd(BinMul(BinOfInt(6), similarity),
                                BinMul(BinOfInt(3), FTenths(importance))),
                         BinOfInt((IF triggerMatched THEN 2 ELSE 0)
                                  + (IF actionRequired THEN 1 ELSE 0))))
TenfoldFormulas ==
    [similarity \in {OneMinus[x] : x \in DOMAIN OneMinus}, importance \in 0..10,
     triggerMatched \in BOOLEAN, actionRequired \in BOOLEAN |->
        TenfoldFormula(similarity, importance, triggerMatched, actionRequired)]

(* C16: the relevance score of a result is min(1.0, 0.6 x similarity + 0.3 x
   importance + 0.2 if a trigger matched + 0.1 if action is required), with
   similarity 1 minus the distance the vector store reported for the memory,
   and importance and action-required those of the stored memory; the score
   is computed in float64 and is within 2^-49 of the exact value. *)
C16_RelevanceFormula ==
    Searched => \A i \in 1..Len(ret.results) :
        LET r == ret.results[i]
            Inputs(importance, actionRequired) ==
                Known(TenfoldFormulas,
                      <<r.SimilarityScore, importance, r.TriggerMatched, actionRequired>>,
                      TenfoldFormula(r.SimilarityScore, importance, r.TriggerMatched, actionRequired))
        IN  /\ BinNear(r.SimilarityScore, BinAdd(FOne, BinNeg(CandidateOf(r.Memory.ID).Distance)))
            /\ BinNear(BinMul(BinOfInt(10), r.RelevanceScore),
                       Inputs(Row(r.Memory.ID).importance, Row(r.Memory.ID).action_required))

C16_Witness ==
    /\ Searched
    /\ \E i \in 1..Len(ret.results) :
        /\ ret.results[i].RelevanceScore = FOne
        /\ ret.results[i].TriggerMatched
        /\ ret.results[i].Memory.Importance = 8
        /\ ret.results[i].SimilarityScore = FOne
    /\ \E i \in 1..Len(ret.results) :
        /\ ret.results[i].SimilarityScore = FTenths(5)
        /\ ret.results[i].Memory.Importance = 5
        /\ ~ret.results[i].TriggerMatched
        /\ ~ret.results[i].Memory.ActionRequired
        /\ FLess(FTenths(4), ret.results[i].RelevanceScore)
        /\ FLess(ret.results[i].RelevanceScore, FTenths(5))

LowerByte(c) == IF c \in 65..90 THEN c + 32 ELSE c
OccursIn(phrase, text) ==
    \E offset \in 0..Len(text) :
        /\ offset + Len(phrase) <= Len(text)
        /\ \A k \in 1..Len(phrase) : LowerByte(text[offset + k]) = LowerByte(phrase[k])

(* C17: the trigger-match flag of a result is true exactly when the query,
   lower-cased, contains one of the trigger phrases of the memory, lower-cased,
   as a substring; it is false for a memory without trigger phrases. *)
C17_TriggerMatchIsSubstring ==
    Searched => \A i \in 1..Len(ret.results) :
        ret.results[i].TriggerMatched
            <=> \E phrase \in TriggerRows(sqlite, ret.results[i].Memory.ID) :
                    OccursIn(phrase, ret.query.Query)

C17_Witness ==
    /\ Searched
    /\ ret.query.Query = TextADb
    /\ \E i \in 1..Len(ret.results) :
        ret.results[i].TriggerMatched /\ TextDb \in TriggerRows(sqlite, ret.results[i].Memory.ID)
    /\ \E i \in 1..Len(ret.results) :
        ~ret.results[i].TriggerMatched /\ TriggerRows(sqlite, ret.results[i].Memory.ID) = {TextJwtLower}
    /\ \E i \in 1..Len(ret.results) :
        ~ret.results[i].TriggerMatched /\ TriggerRows(sqlite, ret.results[i].Memory.ID) = {}

----------------------------------------------------------------------------
(* Properties of what is persisted *)

(* C18: every persisted memory has an importance between 0.0 and 1.0
   inclusive. *)
C18_ImportanceWithinUnitInterval ==
    \A m \in sqlite.memories : m.importance >= 0 /\ m.importance <= 10

(* C19: each persisted memory has a non-empty id and references exactly one
   project that exists; CreateMemory assigns a fresh id when none is given,
   and a CreateMemory for a project id that does not exist fails and persists
   nothing in either store. *)
C19_MemoriesBelongToOneProject ==
    /\ \A m \in sqlite.memories :
        m.id # NoID /\ Cardinality({p \in sqlite.projects : p.id = m.project_id}) = 1
    /\ \A o \in weaviate :
        o.id # NoID /\ Cardinality({p \in sqlite.projects : p.id = o.properties.project_id}) = 1
    /\ \A mem \in {m \in MemoryInputs(Stores) : m.Content = TextJWT}, fault \in StoreFaults :
        \A r \in {EngineCreateMemory(Stores, mem, fault)} :
            /\ mem.ProjectID \notin ProjectIDs(sqlite) => (r.err # NoErr /\ r.st = Stores)
            /\ mem.ID = NoID =>
                (r.mem.ID # NoID /\ r.mem.ID \notin MemoryIDs(sqlite) \cup WeaviateIDs(weaviate))

C19_Witness ==
    /\ ret.op = "CreateMemory"
    /\ ret.err.cause = SqlErr.cause
    /\ ret.id = 2
    /\ 2 \notin MemoryIDs(sqlite)
    /\ MemoryIDs(sqlite) = {1}
    /\ WeaviateIDs(weaviate) = {1}
    /\ Cardinality(sqlite.projects) = 1

(* C20: when the vector write of CreateMemory fails after the relational
   write succeeded, CreateMemory returns an error, and the relational row
   stays persisted without a vector entry. *)
C20_OrphanRowAfterVectorFailure ==
    (ret.op = "CreateMemory" /\ ret.err.cause = VecErr.cause) =>
        /\ ret.err # NoErr
        /\ ret.id \in MemoryIDs(sqlite)
        /\ ret.id \notin WeaviateIDs(weaviate)

C20_Witness ==
    /\ ret.op = "CreateMemory"
    /\ ret.err.cause = VecErr.cause
    /\ ret.id \in MemoryIDs(sqlite)
    /\ WeaviateIDs(weaviate) = MemoryIDs(sqlite) \ {ret.id}
    /\ weaviate # {}

----------------------------------------------------------------------------
(* The curator's API called directly (internal/memory/curator.go) *)

(* the caller takes what the call returned and goes on *)
ApiReturned ==
    /\ pc = "returned"
    /\ pc' = "api"
    /\ ret' = NoReturn
    /\ UNCHANGED <<req, pending, nread, started, written, last, tail, sqlite, weaviate, created, goarch>>

CallCurateSession ==
    /\ pc = "api"
    /\ \E projectID \in ProjectIDs(sqlite) \cup {NoSuchProject}, ai \in AIResponses,
          fault \in StoreFaults \cup {"ai"}, failAt \in 1..2 :
        \E r \in {CurateSession(Stores, projectID, NoID, ai, fault, failAt)} :
            /\ Cardinality(r.st.sqlite.memories) <= MaxMemories
            /\ sqlite' = r.st.sqlite
            /\ weaviate' = r.st.weaviate
            /\ ret' = [op |-> "CurateSession", projectID |-> projectID, ai |-> ai, fault |-> fault,
                       failAt |-> failAt, resp |-> r.resp, err |-> r.err]
    /\ pc' = "returned"
    /\ UNCHANGED <<req, pending, nread, started, written, last, tail, created, goarch>>

NextCurator ==
    \/ CallCurateSession
    \/ ApiReturned

SpecCurator == InitEngine /\ [][NextCurator]_vars

Curating == pc = "api" /\ pc' = "returned" /\ ret'.op = "CurateSession"

(* C21: when the AI call fails, CurateSession returns an error and creates no
   memory in either store. *)
C21_AIFailureCreatesNothing ==
    [][(Curating /\ ret'.fault = "ai") =>
        /\ ret'.err # NoErr
        /\ sqlite' = sqlite
        /\ weaviate' = weaviate]_vars

C21_Witness ==
    /\ pc = "returned"
    /\ ret.op = "CurateSession"
    /\ ret.fault = "ai"
    /\ ret.projectID \in ProjectIDs(sqlite)
    /\ ret.err.cause = AIErr.cause
    /\ sqlite.memories = {}

(* C22: when CreateMemory fails for the k-th proposal of the batch,
   CurateSession returns that error, the proposals after k are not attempted,
   and the proposals before k stay persisted in both stores. *)
C22_BatchStopsAtFirstFailure ==
    [][(/\ Curating
        /\ ret'.fault \in {"embed", "sqlite", "weaviate"}
        /\ ret'.projectID \in ProjectIDs(sqlite)
        /\ ret'.failAt <= Len(ret'.ai.Memories)) =>
        LET k == ret'.failAt
            rows == sqlite'.memories \ sqlite.memories
            objects == weaviate' \ weaviate
            orphans == IF ret'.fault = "weaviate" THEN 1 ELSE 0
        IN  /\ ret'.err # NoErr
            /\ ret'.err.cause = (CASE ret'.fault = "embed" -> EmbedErr.cause
                                   [] ret'.fault = "sqlite" -> SqlErr.cause
                                   [] ret'.fault = "weaviate" -> VecErr.cause)
            /\ Cardinality(objects) = k - 1
            /\ {o.properties.content : o \in objects} = {ret'.ai.Memories[i].Content : i \in 1..(k - 1)}
            /\ Cardinality(rows) = k - 1 + orphans
            /\ {o.id : o \in objects} \subseteq {m.id : m \in rows}
            /\ \A m \in sqlite.memories : m \in sqlite'.memories]_vars

C22_Witness ==
    /\ pc = "returned"
    /\ ret.op = "CurateSession"
    /\ ret.fault = "sqlite"
    /\ ret.failAt = 2
    /\ Len(ret.ai.Memories) = 2
    /\ ret.err.cause = SqlErr.cause
    /\ Cardinality(sqlite.memories) = 1
    /\ Cardinality(weaviate) = 1

Curated == pc = "returned" /\ ret.op = "CurateSession" /\ ret.err = NoErr

(* C23: CurateSession succeeds when the AI output has edges whose from_index
   or to_index lies outside [0, number of proposals); the returned
   relationships are exactly the in-range edges, in their original order, each
   index replaced by the id given to the memory at that position. *)
C23_OutOfRangeEdgesOmitted ==
    /\ (pc = "returned" /\ ret.op = "CurateSession" /\ ret.fault = "none"
        /\ ret.projectID \in ProjectIDs(sqlite)) => ret.err = NoErr
    /\ Curated =>
        LET n == Len(ret.ai.Memories)
            InRange(e) == e.FromIndex \in 0..(n - 1) /\ e.ToIndex \in 0..(n - 1)
            kept == SelectSeq(ret.ai.Relationships, InRange)
        IN  /\ Len(ret.resp.Memories) = n
            /\ \A i \in 1..n : ret.resp.Memories[i] \in MemoryIDs(sqlite)
            /\ Len(ret.resp.Relationships) = Len(kept)
            /\ \A i \in 1..Len(kept) :
                /\ ret.resp.Relationships[i].FromID = ret.resp.Memories[kept[i].FromIndex + 1]
                /\ ret.resp.Relationships[i].ToID = ret.resp.Memories[kept[i].ToIndex + 1]
                /\ ret.resp.Relationships[i].Type = kept[i].Type

C23_Witness ==
    /\ Curated
    /\ Len(ret.ai.Memories) = 2
    /\ Len(ret.ai.Relationships) = 3
    /\ Len(ret.resp.Relationships) = 1
    /\ ret.resp.Relationships[1].FromID # ret.resp.Relationships[1].ToID

(* C24: after a successful curation every returned edge is stored in the
   relational store and can be read back with GetRelationships on either
   endpoint. *)
C24_RelationshipsArePersisted ==
    Curated => \A i \in 1..Len(ret.resp.Relationships) :
        LET e == ret.resp.Relationships[i]
        IN  /\ \E r \in GetRelationships(sqlite, e.FromID) : r.from = e.FromID /\ r.to = e.ToID
            /\ \E r \in GetRelationships(sqlite, e.ToID) : r.from = e.FromID /\ r.to = e.ToID

----------------------------------------------------------------------------
(* Relationship graph (internal/storage/sqlite.go, internal/storage/graph.go) *)

MaxEdges == 3

(* INSERT INTO memory_relationships: the primary key is (from, to, type), both
   ends are foreign keys to memories(id) *)
SQLiteCreateRelationship(db, rel) ==
    IF /\ rel \notin db.memory_relationships
       /\ rel.from \in MemoryIDs(db)
       /\ rel.to \in MemoryIDs(db)
    THEN [db |-> [db EXCEPT !.memory_relationships = @ \cup {rel}], err |-> NoErr]
    ELSE [db |-> db, err |-> SqlErr]

(* mutant: only the rows that leave the node are followed *)
BreadthFirst_OutgoingOnly(db, seedIDs, depth, failing, scan) ==
    LET Rows(memID) == SelectSeq(scan, LAMBDA r : r \in GetRelationships(db, memID))
        Related(rel, memID) == rel.to
        Discover(acc, id) ==
            IF id \in acc.visited THEN acc
            ELSE [acc EXCEPT !.visited = @ \cup {id}, !.result = Append(@, id),
                             !.nextLevel = Append(@, id)]
        RECURSIVE VisitRows(_, _, _)
        VisitRows(rels, memID, acc) ==
            IF rels = <<>> THEN acc
            ELSE VisitRows(Tail(rels), memID, Discover(acc, Related(Head(rels), memID)))
        Fetch(memID, acc) ==
            IF memID \in failing THEN acc ELSE VisitRows(Rows(memID), memID, acc)
        RECURSIVE VisitLevel(_, _)
        VisitLevel(level, acc) ==
            IF level = <<>> THEN acc
            ELSE VisitLevel(Tail(level),
                            Fetch(Head(level), [acc EXCEPT !.fetched = Append(@, Head(level))]))
        RECURSIVE Levels(_, _, _)
        Levels(currentDepth, currentLevel, acc) ==
            IF currentDepth >= depth \/ currentLevel = <<>> THEN acc
            ELSE LET Continue(done) == Levels(currentDepth + 1, done.nextLevel, done)
                 IN  Continue(VisitLevel(currentLevel,
                                         [acc EXCEPT !.nextLevel = <<>>, !.levels = @ + 1]))
    IN  Levels(0, seedIDs, [visited |-> SeqToSet(seedIDs), result |-> <<>>, nextLevel |-> <<>>,
                            fetched |-> <<>>, levels |-> 0])

(* mutant: a failed fetch ends the level *)
BreadthFirst_StopsOnFailure(db, seedIDs, depth, failing, scan) ==
    LET Rows(memID) == SelectSeq(scan, LAMBDA r : r \in GetRelationships(db, memID))
        Related(rel, memID) == IF rel.to = memID THEN rel.from ELSE rel.to
        Discover(acc, id) ==
            IF id \in acc.visited THEN acc
            ELSE [acc EXCEPT !.visited = @ \cup {id}, !.result = Append(@, id),
                             !.nextLevel = Append(@, id)]
        RECURSIVE VisitRows(_, _, _)
        VisitRows(rels, memID, acc) ==
            IF rels = <<>> THEN acc
            ELSE VisitRows(Tail(rels), memID, Discover(acc, Related(Head(rels), memID)))
        Fetch(memID, acc) ==
            IF memID \in failing THEN acc ELSE VisitRows(Rows(memID), memID, acc)
        RECURSIVE VisitLevel(_, _)
        VisitLevel(level, acc) ==
            IF level = <<>> \/ Head(level) \in failing THEN acc
            ELSE VisitLevel(Tail(level),
                            Fetch(Head(level), [acc EXCEPT !.fetched = Append(@, Head(level))]))
        RECURSIVE Levels(_, _, _)
        Levels(currentDepth, currentLevel, acc) ==
            IF currentDepth >= depth \/ currentLevel = <<>> THEN acc
            ELSE LET Continue(done) == Levels(currentDepth + 1, done.nextLevel, done)
                 IN  Continue(VisitLevel(currentLevel,
                                         [acc EXCEPT !.nextLevel = <<>>, !.levels = @ + 1]))
    IN  Levels(0, seedIDs, [visited |-> SeqToSet(seedIDs), result |-> <<>>, nextLevel |-> <<>>,
                            fetched |-> <<>>, levels |-> 0])

(* mutant: a discovered id is not marked as visited *)
BreadthFirst_RevisitsNodes(db, seedIDs, depth, failing, scan) ==
    LET Rows(memID) == SelectSeq(scan, LAMBDA r : r \in GetRelationships(db, memID))
        Related(rel, memID) == IF rel.to = memID THEN rel.from ELSE rel.to
        Discover(acc, id) ==
            IF id \in acc.visited THEN acc
            ELSE [acc EXCEPT !.result = Append(@, id),
                             !.nextLevel = Append(@, id)]
        RECURSIVE VisitRows(_, _, _)
        VisitRows(rels, memID, acc) ==
            IF rels = <<>> THEN acc
            ELSE VisitRows(Tail(rels), memID, Discover(acc, Related(Head(rels), memID)))
        Fetch(memID, acc) ==
            IF memID \in failing THEN acc ELSE VisitRows(Rows(memID), memID, acc)
        RECURSIVE VisitLevel(_, _)
        VisitLevel(level, acc) ==
            IF level = <<>> THEN acc
            ELSE VisitLevel(Tail(level),
                            Fetch(Head(level), [acc EXCEPT !.fetched = Append(@, Head(level))]))
        RECURSIVE Levels(_, _, _)
        Levels(currentDepth, currentLevel, acc) ==
            IF currentDepth >= depth \/ currentLevel = <<>> THEN acc
            ELSE LET Continue(done) == Levels(currentDepth + 1, done.nextLevel, done)
                 IN  Continue(VisitLevel(currentLevel,
                                         [acc EXCEPT !.nextLevel = <<>>, !.levels = @ + 1]))
    IN  Levels(0, seedIDs, [visited |-> SeqToSet(seedIDs), result |-> <<>>, nextLevel |-> <<>>,
                            fetched |-> <<>>, levels |-> 0])

(* mutant: the seeds are not marked as visited *)
BreadthFirst_SeedsUnmarked(db, seedIDs, depth, failing, scan) ==
    LET Rows(memID) == SelectSeq(scan, LAMBDA r : r \in GetRelationships(db, memID))
        Related(rel, memID) == IF rel.to = memID THEN rel.from ELSE rel.to
        Discover(acc, id) ==
            IF id \in acc.visited THEN acc
            ELSE [acc EXCEPT !.visited = @ \cup {id}, !.result = Append(@, id),
                             !.nextLevel = Append(@, id)]
        RECURSIVE VisitRows(_, _, _)
        VisitRows(rels, memID, acc) ==
            IF rels = <<>> THEN acc
            ELSE VisitRows(Tail(rels), memID, Discover(acc, Related(Head(rels), memID)))
        Fetch(memID, acc) ==
            IF memID \in failing THEN acc ELSE VisitRows(Rows(memID), memID, acc)
        RECURSIVE VisitLevel(_, _)
        VisitLevel(level, acc) ==
            IF level = <<>> THEN acc
            ELSE VisitLevel(Tail(level),
                            Fetch(Head(level), [acc EXCEPT !.fetched = Append(@, Head(level))]))
        RECURSIVE Levels(_, _, _)
        Levels(currentDepth, currentLevel, acc) ==
            IF currentDepth >= depth \/ currentLevel = <<>> THEN acc
            ELSE LET Continue(done) == Levels(currentDepth + 1, done.nextLevel, done)
                 IN  Continue(VisitLevel(currentLevel,
                                         [acc EXCEPT !.nextLevel = <<>>, !.levels = @ + 1]))
    IN  Levels(0, seedIDs, [visited |-> {}, result |-> <<>>, nextLevel |-> <<>>,
                            fetched |-> <<>>, levels |-> 0])

(* The traversal of ExpandMemories, level by level.  failing holds the ids
   whose GetRelationships fails, scan the rows of memory_relationships in the
   order the SELECT returns them.  fetched lists the ids GetRelationships was
   called for, levels counts the iterations of the outer loop. *)
BreadthFirst(db, seedIDs, depth, failing, scan) ==
    LET Rows(memID) == SelectSeq(scan, LAMBDA r : r \in GetRelationships(db, memID))
        Related(rel, memID) == IF rel.to = memID THEN rel.from ELSE rel.to
        Discover(acc, id) ==
            IF id \in acc.visited THEN acc
            ELSE [acc EXCEPT !.visited = @ \cup {id}, !.result = Append(@, id),
                             !.nextLevel = Append(@, id)]
        RECURSIVE VisitRows(_, _, _)
        VisitRows(rels, memID, acc) ==
            IF rels = <<>> THEN acc
            ELSE VisitRows(Tail(rels), memID, Discover(acc, Related(Head(rels), memID)))
        Fetch(memID, acc) ==
            IF memID \in failing THEN acc ELSE VisitRows(Rows(memID), memID, acc)
        RECURSIVE VisitLevel(_, _)
        VisitLevel(level, acc) ==
            IF level = <<>> THEN acc
            ELSE VisitLevel(Tail(level),
                            Fetch(Head(level), [acc EXCEPT !.fetched = Append(@, Head(level))]))
        RECURSIVE Levels(_, _, _)
        Levels(currentDepth, currentLevel, acc) ==
            IF currentDepth >= depth \/ currentLevel = <<>> THEN acc
            ELSE LET Continue(done) == Levels(currentDepth + 1, done.nextLevel, done)
                 IN  Continue(VisitLevel(currentLevel,
                                         [acc EXCEPT !.nextLevel = <<>>, !.levels = @ + 1]))
    IN  Levels(0, seedIDs, [visited |-> SeqToSet(seedIDs), result |-> <<>>, nextLevel |-> <<>>,
                            fetched |-> <<>>, levels |-> 0])

(* mutant: the early return hands back the seeds *)
ExpandMemories_ReturnsSeeds(db, seedIDs, depth, failing, scan) ==
    IF depth = 0 \/ Len(seedIDs) = 0
    THEN [result |-> seedIDs, fetched |-> <<>>, levels |-> 0, err |-> NoErr]
    ELSE [result |-> <<>>, fetched |-> <<>>, levels |-> 0, err |-> NoErr]

ExpandMemories(db, seedIDs, depth, failing, scan) ==
    IF depth = 0 \/ Len(seedIDs) = 0
    THEN [result |-> <<>>, fetched |-> <<>>, levels |-> 0, err |-> NoErr]
    ELSE LET Return(out) == [result |-> out.result, fetched |-> out.fetched,
                             levels |-> out.levels, err |-> NoErr]
         IN  Return(BreadthFirst(db, seedIDs, depth, failing, scan))

(* the edges are drawn between the first memories of the catalogue, once it is
   in place, and towards an id that has no row; a second type gives the
   parallel edge from 1 to 2 *)
CallCreateRelationship ==
    /\ pc = "search"
    /\ Cardinality(sqlite.memories) = Len(Catalogue)
    /\ Cardinality(sqlite.memory_relationships) < MaxEdges
    /\ \E from, to \in (MemoryIDs(sqlite) \cap 1..3) \cup {NoSuchMemory} :
        \E type \in IF from = 1 /\ to = 2 THEN {"related_to", "builds_on"} ELSE {"related_to"} :
        \E r \in {SQLiteCreateRelationship(sqlite, [from |-> from, to |-> to, type |-> type])} :
            /\ sqlite' = r.db
            /\ ret' = [op |-> "CreateRelationship", err |-> r.err]
    /\ UNCHANGED <<loopVars, weaviate, created, goarch>>

CallExpandMemories ==
    /\ pc = "search"
    /\ \E seedIDs \in UNION {[1..n -> {1, 2, NoSuchMemory}] : n \in 0..2},
          depth \in {-1, 0, 1, 2, 3}, failing \in {{}, {1}, {2, 3}},
          scan \in Orders(sqlite.memory_relationships) :
        \E out \in {ExpandMemories(sqlite, seedIDs, depth, failing, scan)} :
            ret' = [op |-> "ExpandMemories", seedIDs |-> seedIDs, depth |-> depth,
                    failing |-> failing, result |-> out.result, fetched |-> out.fetched,
                    levels |-> out.levels, err |-> out.err]
    /\ pc' = "returned"
    /\ UNCHANGED <<req, pending, nread, started, written, last, tail, sqlite, weaviate, created, goarch>>

NextGraph ==
    \/ CreateCatalogued
    \/ CallCreateRelationship
    \/ CallExpandMemories
    \/ SearchReturned

SpecGraph == InitSearch /\ [][NextGraph]_vars

Expanded == pc = "returned" /\ ret.op = "ExpandMemories"

(* C25: ExpandMemories returns an empty result when depth is 0 or the seed
   list is empty, whatever the other argument, and makes no call to the
   relational store in that case. *)
C25_NothingForNoDepthOrNoSeeds ==
    (Expanded /\ (ret.depth = 0 \/ ret.seedIDs = <<>>)) =>
        /\ ret.result = <<>>
        /\ ret.fetched = <<>>
        /\ ret.err = NoErr

C25_Witness ==
    /\ Expanded
    /\ ret.depth = 0
    /\ ret.seedIDs = <<1>>
    /\ ret.result = <<>>
    /\ \E r \in sqlite.memory_relationships : r.from = 1 /\ r.to = 2

(* C26: the output of ExpandMemories never contains an id of the seed list,
   also with cycles through a seed and with self-loops. *)
C26_SeedsNeverInOutput ==
    Expanded => SeqToSet(ret.result) \cap SeqToSet(ret.seedIDs) = {}

C26_Witness ==
    /\ Expanded
    /\ ret.seedIDs = <<1>>
    /\ ret.depth = 3
    /\ ret.failing = {}
    /\ ret.result = <<2>>
    /\ [from |-> 1, to |-> 1, type |-> "related_to"] \in sqlite.memory_relationships
    /\ [from |-> 1, to |-> 2, type |-> "related_to"] \in sqlite.memory_relationships
    /\ [from |-> 2, to |-> 1, type |-> "related_to"] \in sqlite.memory_relationships

----------------------------------------------------------------------------
(* Projects *)

(* C27: GetOrCreateProject is idempotent on the path: after a successful call
   exactly one project record has the path and its id is the one returned, a
   call with a path that already exists creates nothing, and a second call
   with the same path returns the id of the first. *)
C27_GetOrCreateProjectIdempotent ==
    [][LET ProjectsAt(db, path) == {p \in db.projects : p.path = path}
       IN  (ret'.op = "GetOrCreateProject" /\ ret'.err = NoErr) =>
              /\ Cardinality(ProjectsAt(sqlite', ret'.path)) = 1
              /\ \A p \in ProjectsAt(sqlite', ret'.path) : p.id = ret'.id
              /\ ProjectsAt(sqlite, ret'.path) # {} => sqlite' = sqlite
              /\ (ret.op = "GetOrCreateProject" /\ ret.err = NoErr /\ ret.path = ret'.path) =>
                    (ret'.id = ret.id /\ sqlite' = sqlite)]_vars

C27_Witness ==
    /\ ret.op = "GetOrCreateProject"
    /\ ret.err = NoErr
    /\ ret.path = OtherPath
    /\ ret.id = OtherProject.id
    /\ sqlite.projects = {OtherProject}

----------------------------------------------------------------------------
(* Sessions (internal/memory/engine.go, internal/storage/sqlite.go).  Time is
   counted in ticks since the start of the run; 0 stands for a NULL
   timestamp. *)

TicksPerSecond == 2
MaxSessions == 2
MaxClock == 5

(* the rowid SQLite gives an inserted row: one more than the largest in the table *)
NextRowID(rows) ==
    LET ids == {r.rowid : r \in rows} \cup {0}
    IN  1 + CHOOSE n \in ids : \A m \in ids : m <= n

(* INSERT INTO sessions: id is the primary key, project_id references projects *)
CreateSessionOK(db, session) ==
    /\ session.id \notin SessionIDs(db)
    /\ session.project_id \in ProjectIDs(db)
(* CreateSession of the store: the INSERT adds the row, or fails on a
   constraint and adds nothing *)
SQLiteCreateSession(db, session) ==
    IF CreateSessionOK(db, session)
    THEN [db EXCEPT !.sessions = @ \cup {session @@ [rowid |-> NextRowID(db.sessions)]}]
    ELSE db

(* Engine.CreateSession: a new id, the start time of the call, no end; the
   error of the store's CreateSession is returned as it is *)
EngineCreateSession(st, projectID, now, fault) ==
    LET used == SessionIDs(st.sqlite)
        session == [id |-> CHOOSE n \in 1..(Cardinality(used) + 1) : n \notin used,
                    project_id |-> projectID, started_at |-> now, ended_at |-> 0,
                    duration_seconds |-> 0]
    IN  IF fault = "sqlite" \/ ~CreateSessionOK(st.sqlite, session)
        THEN [st |-> st, session |-> NoSession, err |-> SqlErr]
        ELSE [st |-> [st EXCEPT !.sqlite = SQLiteCreateSession(st.sqlite, session)],
              session |-> session, err |-> NoErr]

(* int(d.Seconds()): the seconds of a duration in ticks, truncated toward zero *)
WholeSeconds(d) == IF d >= 0 THEN d \div TicksPerSecond ELSE -((-d) \div TicksPerSecond)

(* mutant: the duration is stored in ticks *)
EngineEndSession_DurationInTicks(st, sessionID, now, fault) ==
    LET found == {s \in st.sqlite.sessions : s.id = sessionID}
        Ended(s) == [s EXCEPT !.ended_at = now,
                              !.duration_seconds = now - s.started_at]
    IN  IF fault = "sqlite" THEN [st |-> st, err |-> SqlErr]
        ELSE IF found = {} THEN [st |-> st, err |-> FmtErr("session not found")]
        ELSE [st |-> [st EXCEPT !.sqlite.sessions = (@ \ found) \cup {Ended(s) : s \in found}],
              err |-> NoErr]

(* Engine.EndSession: GetSession, then UpdateSession with the time of the call
   and the whole seconds since the start *)
EngineEndSession(st, sessionID, now, fault) ==
    LET found == {s \in st.sqlite.sessions : s.id = sessionID}
        Ended(s) == [s EXCEPT !.ended_at = now,
                              !.duration_seconds = WholeSeconds(now - s.started_at)]
    IN  IF fault = "sqlite" THEN [st |-> st, err |-> SqlErr]
        ELSE IF found = {} THEN [st |-> st, err |-> FmtErr("session not found")]
        ELSE [st |-> [st EXCEPT !.sqlite.sessions = (@ \ found) \cup {Ended(s) : s \in found}],
              err |-> NoErr]

(* mutant: minutes are rounded to the nearest *)
formatDuration_RoundsToNearest(d) ==
    LET Minute == 60 * TicksPerSecond
        Hour == 60 * Minute
        Day == 24 * Hour
        mins == (d + 30 * TicksPerSecond) \div Minute
        hours == d \div Hour
        days == d \div Day
        weeks == days \div 7
        months == days \div 30
        Ago(n, one, many) == [n |-> n, unit |-> IF n = 1 THEN one ELSE many]
    IN  IF d < Minute THEN [n |-> 0, unit |-> "just now"]
        ELSE IF d < Hour THEN Ago(mins, "minute ago", "minutes ago")
        ELSE IF d < Day THEN Ago(hours, "hour ago", "hours ago")
        ELSE IF days = 1 \/ days < 7 THEN Ago(days, "day ago", "days ago")
        ELSE IF weeks = 1 \/ weeks < 4 THEN Ago(weeks, "week ago", "weeks ago")
        ELSE Ago(months, "month ago", "months ago")

(* formatDuration: the text is kept as the count and the words around it *)
formatDuration(d) ==
    LET Minute == 60 * TicksPerSecond
        Hour == 60 * Minute
        Day == 24 * Hour
        mins == d \div Minute
        hours == d \div Hour
        days == d \div Day
        weeks == days \div 7
        months == days \div 30
        Ago(n, one, many) == [n |-> n, unit |-> IF n = 1 THEN one ELSE many]
    IN  IF d < Minute THEN [n |-> 0, unit |-> "just now"]
        ELSE IF d < Hour THEN Ago(mins, "minute ago", "minutes ago")
        ELSE IF d < Day THEN Ago(hours, "hour ago", "hours ago")
        ELSE IF days = 1 \/ days < 7 THEN Ago(days, "day ago", "days ago")
        ELSE IF weeks = 1 \/ weeks < 4 THEN Ago(weeks, "week ago", "weeks ago")
        ELSE Ago(months, "month ago", "months ago")

(* durations around every boundary of formatDuration, in seconds and days *)
Durations ==
    LET Second == TicksPerSecond
        Day == 86400 * TicksPerSecond
    IN  {-1, 0, 30 * Second, 60 * Second - 1, 60 * Second, 90 * Second, 120 * Second - 1,
         3600 * Second - 1, 3600 * Second, 7200 * Second, Day - 1, Day, 90000 * Second,
         2 * Day - 1, 2 * Day, 7 * Day - 1, 7 * Day, 10 * Day, 14 * Day, 27 * Day,
         28 * Day - 1, 28 * Day, 29 * Day, 30 * Day, 35 * Day, 60 * Day - 1, 60 * Day, 400 * Day}

(* StartedAt is time.Now(), the wall clock: it can repeat the time of an earlier
   call or lie before it *)
CallCreateSession ==
    /\ pc = "api"
    /\ \E projectID \in ProjectIDs(sqlite) \cup {NoSuchProject},
          now \in 1..MaxClock, fault \in {"none", "sqlite"} :
        \E r \in {EngineCreateSession(Stores, projectID, now, fault)} :
            /\ Cardinality(r.st.sqlite.sessions) <= MaxSessions
            /\ sqlite' = r.st.sqlite
            /\ ret' = [op |-> "CreateSession", id |-> r.session.id, now |-> now, err |-> r.err]
    /\ pc' = "returned"
    /\ UNCHANGED <<req, pending, nread, started, written, last, tail, weaviate, created, goarch>>

(* time.Now() is the wall clock, and the start of the session is read back from
   the database: the clock may have been set back in between *)
CallEndSession ==
    /\ pc = "api"
    /\ \E sessionID \in SessionIDs(sqlite) \cup {Cardinality(sqlite.sessions) + 1},
          now \in 1..MaxClock, fault \in {"none", "sqlite"} :
        \E r \in {EngineEndSession(Stores, sessionID, now, fault)} :
            /\ sqlite' = r.st.sqlite
            /\ ret' = [op |-> "EndSession", id |-> sessionID, now |-> now, err |-> r.err]
    /\ pc' = "returned"
    /\ UNCHANGED <<req, pending, nread, started, written, last, tail, weaviate, created, goarch>>

CallGetSessionPrimer ==
    /\ pc = "api"
    /\ \E projectID \in ProjectIDs(sqlite) \cup {NoSuchProject}, fault \in {"none", "sqlite"} :
        \E r \in {GetSessionPrimer(Stores, projectID, fault)} :
            ret' = [op |-> "GetSessionPrimer", id |-> projectID, primer |-> r.primer, err |-> r.err]
    /\ pc' = "returned"
    /\ UNCHANGED <<req, pending, nread, started, written, last, tail, sqlite, weaviate, created, goarch>>

CallFormatDuration ==
    /\ pc = "api"
    /\ \E d \in Durations :
        ret' = [op |-> "formatDuration", d |-> d, text |-> formatDuration(d), err |-> NoErr]
    /\ pc' = "returned"
    /\ UNCHANGED <<req, pending, nread, started, written, last, tail, sqlite, weaviate, created, goarch>>

NextSessions ==
    \/ CallGetOrCreateProject
    \/ CallCreateSession
    \/ CallEndSession
    \/ CallGetSessionPrimer
    \/ CallFormatDuration
    \/ ApiReturned

SpecSessions == InitEngine /\ [][NextSessions]_vars

(* C28: EndSession with an id that has no session returns an error and changes
   no session; with the id of a session it stores the time of the call as the
   end and the whole seconds between start and end as the duration (the
   fraction of a second is dropped, also when the end is before the start),
   and leaves the other sessions alone. *)
C28_EndSessionSetsEndAndDuration ==
    [][ret'.op = "EndSession" =>
          LET known == {s \in sqlite.sessions : s.id = ret'.id}
          IN  /\ known = {} => (ret'.err # NoErr /\ sqlite' = sqlite)
              /\ ret'.err # NoErr => sqlite' = sqlite
              /\ (known # {} /\ ret'.err = NoErr) =>
                    /\ {s.id : s \in sqlite'.sessions} = {s.id : s \in sqlite.sessions}
                    /\ [sqlite' EXCEPT !.sessions = {}] = [sqlite EXCEPT !.sessions = {}]
                    /\ sqlite.sessions \ known \subseteq sqlite'.sessions
                    /\ \A s \in known : \E e \in sqlite'.sessions, n \in (-MaxClock)..MaxClock :
                          /\ e = [s EXCEPT !.ended_at = ret'.now, !.duration_seconds = n]
                          /\ ret'.now >= s.started_at =>
                                /\ n * TicksPerSecond <= ret'.now - s.started_at
                                /\ ret'.now - s.started_at < (n + 1) * TicksPerSecond
                          /\ ret'.now < s.started_at =>
                                /\ (n - 1) * TicksPerSecond < ret'.now - s.started_at
                                /\ ret'.now - s.started_at <= n * TicksPerSecond]_vars

C28_Witness ==
    /\ ret.op = "EndSession"
    /\ ret.err = NoErr
    /\ \E s \in sqlite.sessions :
        /\ s.id = ret.id
        /\ s.ended_at = ret.now
        /\ s.ended_at - s.started_at = TicksPerSecond + 1
        /\ s.duration_seconds = 1
    /\ \E s \in sqlite.sessions :
        /\ s.ended_at # 0
        /\ s.ended_at - s.started_at = -1
        /\ s.duration_seconds = 0
    /\ Cardinality(sqlite.sessions) = MaxSessions

(* C29: the primer reports the most recently ended session of the project: its
   last-session date is the latest end time among the ended sessions, also
   when a newer session has been started and has not ended. *)
C29_PrimerShowsLatestEndedSession ==
    (ret.op = "GetSessionPrimer" /\ ret.err = NoErr) =>
        LET ended == {s \in sqlite.sessions : s.project_id = ret.id /\ s.ended_at # 0}
        IN  IF ended = {} THEN ~ret.primer.HasLastSession
            ELSE /\ ret.primer.HasLastSession
                 /\ \E s \in ended : /\ ret.primer.LastSessionDate = s.ended_at
                                     /\ \A t \in ended : t.ended_at <= s.ended_at

(* C30: formatDuration gives "just now" below 60 seconds, 30 seconds included,
   "1 minute ago" for 90 seconds, "2 hours ago" for 7200 seconds, "1 day ago"
   for 90000 seconds, "1 week ago" for 10 days and "1 month ago" for 35 days;
   every count is the whole number of units in the duration, rounded down. *)
C30_FormatDurationBuckets ==
    ret.op = "formatDuration" =>
        LET Second == TicksPerSecond
            Day == 86400 * Second
            Is(d, n, unit) == ret.d = d => ret.text = [n |-> n, unit |-> unit]
            UnitTicks == [u \in {"minute ago", "minutes ago"} |-> 60 * Second] @@
                         [u \in {"hour ago", "hours ago"} |-> 3600 * Second] @@
                         [u \in {"day ago", "days ago"} |-> Day] @@
                         [u \in {"week ago", "weeks ago"} |-> 7 * Day] @@
                         [u \in {"month ago", "months ago"} |-> 30 * Day]
        IN  /\ ret.d < 60 * Second => ret.text = [n |-> 0, unit |-> "just now"]
            /\ Is(30 * Second, 0, "just now")
            /\ Is(90 * Second, 1, "minute ago")
            /\ Is(7200 * Second, 2, "hours ago")
            /\ Is(90000 * Second, 1, "day ago")
            /\ Is(10 * Day, 1, "week ago")
            /\ Is(35 * Day, 1, "month ago")
            /\ ret.text.unit # "just now" =>
                  ret.text.n = ret.d \div UnitTicks[ret.text.unit]

C30_Witness ==
    /\ ret.op = "formatDuration"
    /\ ret.d = 35 * 86400 * TicksPerSecond
    /\ ret.text = [n |-> 1, unit |-> "month ago"]

----------------------------------------------------------------------------
(* Tool defaults (internal/mcp/tools.go) *)

Supplied(args, name, default) == IF name \in DOMAIN args THEN args[name] ELSE default

(* C31: the tool layer applies a default only when the optional argument is
   left out and uses the supplied value otherwise: search_memories searches
   with limit 5 and min_importance 0.3 by default, save_memory stores
   importance 0.5 by default. *)
C31_DefaultsOnlyWhenOmitted ==
    /\ (pc = "dispatch" /\ IsToolCall(req, "search_memories") /\ ArgumentsOf(req) # Absent) =>
          /\ SearchDefaults(ArgumentsOf(req)).Limit =
                Supplied(ArgumentsOf(req), "limit", ToolDefaultLimit)
          /\ SearchDefaults(ArgumentsOf(req)).MinImportance =
                Supplied(ArgumentsOf(req), "min_importance", ToolDefaultMinImportance)
    /\ (pc = "respond" /\ IsToolCall(req, "save_memory") /\ pending.err = NoErr) =>
          \E m \in sqlite.memories :
              /\ m.id = pending.result.id
              /\ m.importance = Supplied(ArgumentsOf(req), "importance", ToolDefaultImportance)

----------------------------------------------------------------------------
(* Traversal properties *)

(* the ids within k hops of the seeds, every row followed in both directions
   from the nodes whose fetch works *)
RECURSIVE HopsWithin(_, _, _, _)
HopsWithin(edges, seeds, failing, k) ==
    IF k <= 0 THEN seeds
    ELSE LET Around(near) ==
                 near \cup {r.to : r \in {e \in edges : e.from \in near \ failing}}
                      \cup {r.from : r \in {e \in edges : e.to \in near \ failing}}
         IN  Around(HopsWithin(edges, seeds, failing, k - 1))

(* C32: when no fetch fails and depth > 0, ExpandMemories returns exactly the
   ids that are not seeds and lie within depth hops of a seed, rows followed
   in both directions; each id once, and the ids of hop k before those of hop
   k + 1. *)
C32_BreadthFirstExactAndOrdered ==
    (Expanded /\ ret.depth > 0 /\ ret.failing = {}) =>
        LET Near(k) == HopsWithin(sqlite.memory_relationships, SeqToSet(ret.seedIDs), {}, k)
            Hop(id) == CHOOSE k \in 1..ret.depth : id \in Near(k) /\ id \notin Near(k - 1)
        IN  /\ SeqToSet(ret.result) = Near(ret.depth) \ SeqToSet(ret.seedIDs)
            /\ ~HasDuplicates(ret.result)
            /\ \A i, j \in 1..Len(ret.result) :
                   i < j => Hop(ret.result[i]) <= Hop(ret.result[j])

C32_Witness ==
    /\ Expanded
    /\ ret.seedIDs = <<1>>
    /\ ret.depth = 2
    /\ ret.failing = {}
    /\ ret.result = <<2, 3>>
    /\ sqlite.memory_relationships = {[from |-> 2, to |-> 1, type |-> "related_to"],
                                      [from |-> 2, to |-> 3, type |-> "related_to"]}

(* C33: ExpandMemories never returns an error; a node whose fetch fails
   contributes no rows, and the traversal goes on with the other nodes of the
   level and with the later levels. *)
C33_FailedFetchIsSkipped ==
    Expanded =>
        /\ ret.err = NoErr
        /\ ret.depth > 0 =>
              SeqToSet(ret.result) =
                  HopsWithin(sqlite.memory_relationships, SeqToSet(ret.seedIDs),
                             ret.failing, ret.depth) \ SeqToSet(ret.seedIDs)

C33_Witness ==
    /\ Expanded
    /\ ret.seedIDs = <<1, 2>>
    /\ ret.depth = 2
    /\ ret.failing = {1}
    /\ ret.err = NoErr
    /\ ret.result = <<3>>
    /\ ret.fetched = <<1, 2, 3>>
    /\ sqlite.memory_relationships = {[from |-> 1, to |-> 3, type |-> "related_to"],
                                      [from |-> 2, to |-> 3, type |-> "related_to"]}

Times(id, ids) == Cardinality({i \in 1..Len(ids) : ids[i] = id})

(* C34 as stated: at most depth levels, the relationships of each node
   fetched at most once, and no level after one that discovered nothing. *)
C34_EachNodeFetchedAtMostOnce ==
    Expanded =>
        /\ ret.levels <= IF ret.depth > 0 THEN ret.depth ELSE 0
        /\ ret.levels <= Len(ret.result) + 1
        /\ \A id \in SeqToSet(ret.fetched) : Times(id, ret.fetched) = 1

(* C34, amended: ExpandMemories ends after at most depth levels and runs no
   level after one that discovered nothing; it fetches the relationships of
   a seed once for each time the seed is listed, and those of every other
   node at most once. *)
C34_FetchesBounded ==
    Expanded =>
        /\ ret.levels <= IF ret.depth > 0 THEN ret.depth ELSE 0
        /\ ret.levels <= Len(ret.result) + 1
        /\ \A id \in SeqToSet(ret.fetched) :
              Times(id, ret.fetched) = IF id \in SeqToSet(ret.seedIDs)
                                       THEN Times(id, ret.seedIDs) ELSE 1
        /\ SeqToSet(ret.fetched) \subseteq SeqToSet(ret.seedIDs) \cup SeqToSet(ret.result)

C34_Witness ==
    /\ Expanded
    /\ ret.seedIDs = <<1, 1>>
    /\ ret.depth = 3
    /\ ret.fetched = <<1, 1, 2>>
    /\ ret.levels = 2
    /\ ret.result = <<2>>
    /\ sqlite.memory_relationships = {[from |-> 1, to |-> 1, type |-> "related_to"],
                                      [from |-> 1, to |-> 2, type |-> "related_to"],
                                      [from |-> 1, to |-> 2, type |-> "builds_on"]}

----------------------------------------------------------------------------
(* Hydration of the candidates *)

(* C35: a candidate whose id has no row in the relational store, or whose
   read fails, is dropped without making the search fail; the other
   candidates are scored and returned, up to the limit. *)
C35_UnreadableCandidatesDropped ==
    (ret.op = "SearchMemories" /\ ~ret.panic) =>
        LET readable == {i \in 1..Len(ret.candidates) :
                            ret.fault = "none" /\ ret.candidates[i].ID \in MemoryIDs(sqlite)}
        IN  /\ ret.err = NoErr
            /\ Len(ret.results) = Min(Cardinality(readable), SearchLimit(ret.query))
            /\ \A k \in 1..Len(ret.results) :
                   \E i \in readable : ret.candidates[i].ID = ret.results[k].Memory.ID

C35_Witness ==
    /\ ret.op = "SearchMemories"
    /\ ~ret.panic
    /\ ret.err = NoErr
    /\ ret.fault = "none"
    /\ Len(ret.candidates) = 2
    /\ ret.candidates[1].ID = NoSuchMemory
    /\ Len(ret.results) = 1
    /\ ret.results[1].Memory.ID = ret.candidates[2].ID

----------------------------------------------------------------------------
(* The two stores over time *)

(* C36: across any sequence of requests the persisted memories are only added
   to: no step removes a row or a vector object, and the content, importance,
   tags and project of a persisted memory stay as they are. *)
C36_MemoriesOnlyAdded ==
    [][/\ sqlite.memories \subseteq sqlite'.memories
       /\ Cardinality(sqlite'.memories) = Cardinality(MemoryIDs(sqlite'))
       /\ \A id \in MemoryIDs(sqlite) : TagRows(sqlite', id) = TagRows(sqlite, id)
       /\ weaviate \subseteq weaviate'
       /\ Cardinality(weaviate') = Cardinality(WeaviateIDs(weaviate'))]_vars

C36_Witness ==
    /\ pc = "respond"
    /\ IsToolCall(req, "save_memory")
    /\ pending.err = NoErr
    /\ Cardinality(sqlite.memories) = 2
    /\ Cardinality(weaviate) = 2
    /\ \E m \in sqlite.memories : m.id # pending.result.id /\ m.content = ArgumentsOf(req).content

(* C37: every id of the vector store has a row in the relational store, in
   every reachable state; a CreateMemory whose embedding fails, or whose id
   already has a row, writes to neither store. *)
C37_VectorIdsHaveRows ==
    /\ [](WeaviateIDs(weaviate) \subseteq MemoryIDs(sqlite))
    /\ [][ret'.op = "CreateMemory" =>
             /\ ret'.err.cause = EmbedErr.cause => (sqlite' = sqlite /\ weaviate' = weaviate)
             /\ ret'.id \in MemoryIDs(sqlite) =>
                   (ret'.err # NoErr /\ sqlite' = sqlite /\ weaviate' = weaviate)]_vars

C37_Witness ==
    /\ ret.op = "CreateMemory"
    /\ ret.err.cause = SqlErr.cause
    /\ ret.id = 1
    /\ MemoryIDs(sqlite) = {1, 2}
    /\ WeaviateIDs(weaviate) = {1}

----------------------------------------------------------------------------
(* End of input *)

(* C38: every complete request of the input has its response when the loop
   ends, the last one too when its line reaches the end of input without a
   newline: at the end there is one response for each line read and one for
   a request left in the last text. *)
C38_LastRequestIsAnswered ==
    pc = "stopped" =>
        written = nread + (IF tail.kind = "request" THEN 1 ELSE 0)

----------------------------------------------------------------------------
(* Counts and units of formatDuration *)

UnitRank(unit) ==
    CASE unit = "just now" -> 0
      [] unit \in {"minute ago", "minutes ago"} -> 1
      [] unit \in {"hour ago", "hours ago"} -> 2
      [] unit \in {"day ago", "days ago"} -> 3
      [] unit \in {"week ago", "weeks ago"} -> 4
      [] unit \in {"month ago", "months ago"} -> 5

(* C39: for an elapsed time of at least one minute the count in the text of
   formatDuration is at least 1, at 28 and 29 days too, and the unit of a
   longer time is never smaller than the unit of a shorter one. *)
C39_CountAtLeastOne ==
    ret.op = "formatDuration" =>
        /\ ret.d >= 60 * TicksPerSecond => ret.text.n >= 1
        /\ \A longer \in Durations :
               longer >= ret.d => UnitRank(formatDuration(longer).unit) >= UnitRank(ret.text.unit)

----------------------------------------------------------------------------
(* OpenRouter client (internal/ai/openrouter.go).  A text is its sequence of
   bytes; an error is its message, and the empty sequence is nil. *)

maxRetries == 3

(* contains of package ai: both sides in lower case, then a substring search *)
aiContains(str, substr) == contains(toLower(str), toLower(substr))

shouldRetry(err) ==
    \/ aiContains(err, <<114, 97, 116, 101, 32, 108, 105, 109, 105, 116>>)  \* "rate limit"
    \/ aiContains(err, <<52, 50, 57>>)  \* "429"
    \/ aiContains(err, <<116, 105, 109, 101, 111, 117, 116>>)  \* "timeout"
    \/ aiContains(err, <<99, 111, 110, 110, 101, 99, 116, 105, 111, 110>>)  \* "connection"
    \/ aiContains(err, <<53, 48, 48>>)  \* "500"
    \/ aiContains(err, <<53, 48, 50>>)  \* "502"
    \/ aiContains(err, <<53, 48, 51>>)  \* "503"

(* %d of a status code *)
RECURSIVE Decimal(_)
Decimal(n) == IF n < 10 THEN <<48 + n>> ELSE Decimal(n \div 10) \o <<48 + (n % 10)>>

DefaultModel ==
    <<97, 110, 116, 104, 114, 111, 112, 105, 99, 47, 99, 108, 97, 117, 100, 101, 45, 51, 46, 53, 45, 115, 111, 110, 110, 101, 116>>  \* "anthropic/claude-3.5-sonnet"

(* The bodies a server answers with, and what json.Unmarshal makes of each:
   an error, or the error member (nil when absent) and the contents of the
   choices. *)
NoAPIError == [nil |-> TRUE, Message |-> <<>>, Type |-> <<>>, Code |-> <<>>]
APIError(message, type, code) == [nil |-> FALSE, Message |-> message, Type |-> type, Code |-> code]
Decoded(body, err, apiErr, choices) ==
    [body |-> body, value |-> [err |-> err, Error |-> apiErr, Choices |-> choices]]
Bodies == {
    Decoded(<<>>,  \* ""
            <<117, 110, 101, 120, 112, 101, 99, 116, 101, 100, 32, 101, 110, 100, 32, 111, 102, 32, 74, 83, 79, 78, 32, 105, 110, 112, 117, 116>>,  \* "unexpected end of JSON input"
            NoAPIError, <<>>),
    Decoded(<<60, 104, 116, 109, 108, 62, 83, 101, 114, 118, 105, 99, 101, 32, 85, 110, 97, 118, 97, 105, 108, 97, 98, 108, 101, 60, 47, 104, 116, 109, 108, 62>>,  \* "<html>Service Unavailable</html>"
            <<105, 110, 118, 97, 108, 105, 100, 32, 99, 104, 97, 114, 97, 99, 116, 101, 114, 32, 39, 60, 39, 32, 108, 111, 111, 107, 105, 110, 103, 32, 102, 111, 114, 32, 98, 101, 103, 105, 110, 110, 105, 110, 103, 32, 111, 102, 32, 118, 97, 108, 117, 101>>,  \* "invalid character '<' looking for beginning of value"
            NoAPIError, <<>>),
    Decoded(<<123, 125>>,  \* "{}"
            <<>>, NoAPIError, <<>>),
    Decoded(<<123, 34, 109, 101, 115, 115, 97, 103, 101, 34, 58, 34, 103, 97, 116, 101, 119, 97, 121, 32, 116, 105, 109, 101, 111, 117, 116, 34, 125>>,  \* "{"message":"gateway timeout"}"
            <<>>, NoAPIError, <<>>),
    Decoded(<<123, 34, 99, 104, 111, 105, 99, 101, 115, 34, 58, 91, 123, 34, 109, 101, 115, 115, 97, 103, 101, 34, 58, 123, 34, 99, 111, 110, 116, 101, 110, 116, 34, 58, 34, 111, 107, 34, 125, 125, 93, 125>>,  \* "{"choices":[{"message":{"content":"ok"}}]}"
            <<>>, NoAPIError, <<<<111, 107>>>>),  \* "ok"
    Decoded(<<123, 34, 101, 114, 114, 111, 114, 34, 58, 123, 34, 109, 101, 115, 115, 97, 103, 101, 34, 58, 34, 73, 110, 118, 97, 108, 105, 100, 32, 65, 80, 73, 32, 107, 101, 121, 34, 44, 34, 116, 121, 112, 101, 34, 58, 34, 97, 117, 116, 104, 34, 44, 34, 99, 111, 100, 101, 34, 58, 34, 105, 110, 118, 97, 108, 105, 100, 95, 97, 112, 105, 95, 107, 101, 121, 34, 125, 125>>,  \* "{"error":{"message":"Invalid API key","type":"auth","code":"invalid_api_key"}}"
            <<>>,
            APIError(<<73, 110, 118, 97, 108, 105, 100, 32, 65, 80, 73, 32, 107, 101, 121>>,  \* "Invalid API key"
                     <<97, 117, 116, 104>>,  \* "auth"
                     <<105, 110, 118, 97, 108, 105, 100, 95, 97, 112, 105, 95, 107, 101, 121>>), <<>>),  \* "invalid_api_key"
    Decoded(<<123, 34, 101, 114, 114, 111, 114, 34, 58, 123, 34, 109, 101, 115, 115, 97, 103, 101, 34, 58, 34, 84, 111, 111, 32, 109, 97, 110, 121, 32, 114, 101, 113, 117, 101, 115, 116, 115, 34, 125, 125>>,  \* "{"error":{"message":"Too many requests"}}"
            <<>>,
            APIError(<<84, 111, 111, 32, 109, 97, 110, 121, 32, 114, 101, 113, 117, 101, 115, 116, 115>>, <<>>, <<>>), <<>>),  \* "Too many requests"
    Decoded(<<123, 34, 101, 114, 114, 111, 114, 34, 58, 123, 34, 109, 101, 115, 115, 97, 103, 101, 34, 58, 34, 77, 111, 100, 101, 108, 32, 110, 111, 116, 32, 102, 111, 117, 110, 100, 34, 44, 34, 99, 111, 100, 101, 34, 58, 34, 109, 111, 100, 101, 108, 95, 110, 111, 116, 95, 102, 111, 117, 110, 100, 34, 125, 125>>,  \* "{"error":{"message":"Model not found","code":"model_not_found"}}"
            <<>>,
            APIError(<<77, 111, 100, 101, 108, 32, 110, 111, 116, 32, 102, 111, 117, 110, 100>>, <<>>,  \* "Model not found"
                     <<109, 111, 100, 101, 108, 95, 110, 111, 116, 95, 102, 111, 117, 110, 100>>), <<>>),  \* "model_not_found"
    Decoded(<<123, 34, 101, 114, 114, 111, 114, 34, 58, 123, 34, 109, 101, 115, 115, 97, 103, 101, 34, 58, 34, 78, 111, 116, 32, 101, 110, 111, 117, 103, 104, 32, 99, 114, 101, 100, 105, 116, 115, 34, 44, 34, 99, 111, 100, 101, 34, 58, 34, 105, 110, 115, 117, 102, 102, 105, 99, 105, 101, 110, 116, 95, 113, 117, 111, 116, 97, 34, 125, 125>>,  \* "{"error":{"message":"Not enough credits","code":"insufficient_quota"}}"
            <<>>,
            APIError(<<78, 111, 116, 32, 101, 110, 111, 117, 103, 104, 32, 99, 114, 101, 100, 105, 116, 115>>, <<>>,  \* "Not enough credits"
                     <<105, 110, 115, 117, 102, 102, 105, 99, 105, 101, 110, 116, 95, 113, 117, 111, 116, 97>>), <<>>),  \* "insufficient_quota"
    Decoded(<<123, 34, 101, 114, 114, 111, 114, 34, 58, 123, 34, 109, 101, 115, 115, 97, 103, 101, 34, 58, 34, 80, 114, 111, 118, 105, 100, 101, 114, 32, 114, 101, 116, 117, 114, 110, 101, 100, 32, 101, 114, 114, 111, 114, 34, 44, 34, 116, 121, 112, 101, 34, 58, 34, 115, 101, 114, 118, 101, 114, 95, 101, 114, 114, 111, 114, 34, 44, 34, 99, 111, 100, 101, 34, 58, 34, 53, 48, 50, 34, 125, 125>>,  \* "{"error":{"message":"Provider returned error","type":"server_error","code":"502"}}"
            <<>>,
            APIError(<<80, 114, 111, 118, 105, 100, 101, 114, 32, 114, 101, 116, 117, 114, 110, 101, 100, 32, 101, 114, 114, 111, 114>>,  \* "Provider returned error"
                     <<115, 101, 114, 118, 101, 114, 95, 101, 114, 114, 111, 114>>,  \* "server_error"
                     <<53, 48, 50>>), <<>>)}  \* "502"
Unmarshal(body) == (CHOOSE d \in Bodies : d.body = body).value

(* formatAPIError: the message of the API error and a suggestion chosen by its
   code, the status and its message *)
formatAPIError(apiErr, statusCode, model) ==
    LET baseMsg == <<79, 112, 101, 110, 82, 111, 117, 116, 101, 114, 32, 65, 80, 73, 32, 101, 114, 114, 111, 114, 58, 32>> \o apiErr.Message  \* "OpenRouter API error: "
    IN  IF \/ aiContains(apiErr.Code, <<105, 110, 118, 97, 108, 105, 100, 95, 97, 112, 105, 95, 107, 101, 121>>)  \* "invalid_api_key"
           \/ aiContains(apiErr.Code, <<97, 117, 116, 104, 101, 110, 116, 105, 99, 97, 116, 105, 111, 110>>)  \* "authentication"
        THEN baseMsg \o <<10, 10, 80, 108, 101, 97, 115, 101, 32, 99, 104, 101, 99, 107, 32, 121, 111, 117, 114, 32, 79, 80, 69, 78, 82, 79, 85, 84, 69, 82, 95, 65, 80, 73, 95, 75, 69, 89, 32, 101, 110, 118, 105, 114, 111, 110, 109, 101, 110, 116, 32, 118, 97, 114, 105, 97, 98, 108, 101>>  \* "\n\nPlease check your OPENROUTER_API_KEY environment variable"
        ELSE IF \/ aiContains(apiErr.Code, <<114, 97, 116, 101, 95, 108, 105, 109, 105, 116>>)  \* "rate_limit"
                \/ statusCode = 429
        THEN baseMsg \o <<10, 10, 89, 111, 117, 39, 118, 101, 32, 104, 105, 116, 32, 116, 104, 101, 32, 114, 97, 116, 101, 32, 108, 105, 109, 105, 116, 46, 32, 84, 104, 101, 32, 114, 101, 113, 117, 101, 115, 116, 32, 119, 105, 108, 108, 32, 98, 101, 32, 114, 101, 116, 114, 105, 101, 100, 32, 97, 117, 116, 111, 109, 97, 116, 105, 99, 97, 108, 108, 121>>  \* "\n\nYou've hit the rate limit. The request will be retried automatically"
        ELSE IF /\ aiContains(apiErr.Message, <<109, 111, 100, 101, 108>>)  \* "model"
                /\ aiContains(apiErr.Message, <<110, 111, 116, 32, 102, 111, 117, 110, 100>>)  \* "not found"
        THEN baseMsg \o <<10, 10, 77, 111, 100, 101, 108, 32, 39>> \o model  \* "\n\nModel '"
                     \o <<39, 32, 105, 115, 32, 110, 111, 116, 32, 97, 118, 97, 105, 108, 97, 98, 108, 101, 46, 32, 84, 114, 121, 58, 32, 97, 110, 116, 104, 114, 111, 112, 105, 99, 47, 99, 108, 97, 117, 100, 101, 45, 51, 46, 53, 45, 115, 111, 110, 110, 101, 116, 44, 32, 111, 112, 101, 110, 97, 105, 47, 103, 112, 116, 45, 52, 45, 116, 117, 114, 98, 111, 44, 32, 111, 114, 32, 109, 101, 116, 97, 45, 108, 108, 97, 109, 97, 47, 108, 108, 97, 109, 97, 45, 51, 46, 49, 45, 55, 48, 98, 45, 105, 110, 115, 116, 114, 117, 99, 116>>  \* "' is not available. Try: anthropic/claude-3.5-sonnet, openai/gpt-4-turbo, or meta-llama/llama-3.1-70b-instruct"
        ELSE IF \/ aiContains(apiErr.Code, <<105, 110, 115, 117, 102, 102, 105, 99, 105, 101, 110, 116, 95, 113, 117, 111, 116, 97>>)  \* "insufficient_quota"
                \/ aiContains(apiErr.Message, <<99, 114, 101, 100, 105, 116, 115>>)  \* "credits"
        THEN baseMsg \o <<10, 10, 73, 110, 115, 117, 102, 102, 105, 99, 105, 101, 110, 116, 32, 99, 114, 101, 100, 105, 116, 115, 46, 32, 80, 108, 101, 97, 115, 101, 32, 97, 100, 100, 32, 99, 114, 101, 100, 105, 116, 115, 32, 116, 111, 32, 121, 111, 117, 114, 32, 79, 112, 101, 110, 82, 111, 117, 116, 101, 114, 32, 97, 99, 99, 111, 117, 110, 116>>  \* "\n\nInsufficient credits. Please add credits to your OpenRouter account"
        ELSE baseMsg \o <<32, 40, 116, 121, 112, 101, 58, 32>> \o apiErr.Type  \* " (type: "
                     \o <<44, 32, 99, 111, 100, 101, 58, 32>> \o apiErr.Code \o <<41>>  \* ", code: " ")"

(* What the transport did with one request: httpClient.Do failed with the error
   doErr, or the body could not be read to its end, or a status and a body
   came back. *)
Answered(status, body) == [doErr |-> <<>>, readErr |-> <<>>, status |-> status, body |-> body]
DoFailed(doErr) == [doErr |-> doErr, readErr |-> <<>>, status |-> 0, body |-> <<>>]
ReadFailed(status, readErr) == [doErr |-> <<>>, readErr |-> readErr, status |-> status, body |-> <<>>]
Statuses == {200, 401, 429, 503}
Answers ==
    {Answered(status, d.body) : status \in Statuses, d \in Bodies} \cup
    {DoFailed(<<80, 111, 115, 116, 32, 34, 104, 116, 116, 112, 115, 58, 47, 47, 111, 112, 101, 110, 114, 111, 117, 116, 101, 114, 46, 97, 105, 47, 97, 112, 105, 47, 118, 49, 47, 99, 104, 97, 116, 47, 99, 111, 109, 112, 108, 101, 116, 105, 111, 110, 115, 34, 58, 32, 99, 111, 110, 116, 101, 120, 116, 32, 100, 101, 97, 100, 108, 105, 110, 101, 32, 101, 120, 99, 101, 101, 100, 101, 100, 32, 40, 67, 108, 105, 101, 110, 116, 46, 84, 105, 109, 101, 111, 117, 116, 32, 101, 120, 99, 101, 101, 100, 101, 100, 32, 119, 104, 105, 108, 101, 32, 97, 119, 97, 105, 116, 105, 110, 103, 32, 104, 101, 97, 100, 101, 114, 115, 41>>),  \* "Post "https://openrouter.ai/api/v1/chat/completions": context deadline exceeded (Client.Timeout exceeded while awaiting headers)"
     DoFailed(<<80, 111, 115, 116, 32, 34, 104, 116, 116, 112, 115, 58, 47, 47, 111, 112, 101, 110, 114, 111, 117, 116, 101, 114, 46, 97, 105, 47, 97, 112, 105, 47, 118, 49, 47, 99, 104, 97, 116, 47, 99, 111, 109, 112, 108, 101, 116, 105, 111, 110, 115, 34, 58, 32, 100, 105, 97, 108, 32, 116, 99, 112, 32, 49, 48, 52, 46, 49, 56, 46, 51, 46, 49, 49, 53, 58, 52, 52, 51, 58, 32, 99, 111, 110, 110, 101, 99, 116, 58, 32, 99, 111, 110, 110, 101, 99, 116, 105, 111, 110, 32, 114, 101, 102, 117, 115, 101, 100>>),  \* "Post "https://openrouter.ai/api/v1/chat/completions": dial tcp 104.18.3.115:443: connect: connection refused"
     DoFailed(<<80, 111, 115, 116, 32, 34, 104, 116, 116, 112, 115, 58, 47, 47, 111, 112, 101, 110, 114, 111, 117, 116, 101, 114, 46, 97, 105, 47, 97, 112, 105, 47, 118, 49, 47, 99, 104, 97, 116, 47, 99, 111, 109, 112, 108, 101, 116, 105, 111, 110, 115, 34, 58, 32, 100, 105, 97, 108, 32, 116, 99, 112, 58, 32, 108, 111, 111, 107, 117, 112, 32, 111, 112, 101, 110, 114, 111, 117, 116, 101, 114, 46, 97, 105, 58, 32, 110, 111, 32, 115, 117, 99, 104, 32, 104, 111, 115, 116>>),  \* "Post "https://openrouter.ai/api/v1/chat/completions": dial tcp: lookup openrouter.ai: no such host"
     ReadFailed(200, <<117, 110, 101, 120, 112, 101, 99, 116, 101, 100, 32, 69, 79, 70>>)}  \* "unexpected EOF"

(* the checks of makeRequest after the body is parsed, in the order of the code *)
Checked(parsed, answer, model) ==
    IF parsed.err # <<>>
    THEN [response |-> <<>>, err |-> <<102, 97, 105, 108, 101, 100, 32, 116, 111, 32, 112, 97, 114, 115, 101, 32, 114, 101, 115, 112, 111, 110, 115, 101, 58, 32>> \o parsed.err]  \* "failed to parse response: "
    ELSE IF ~parsed.Error.nil
    THEN [response |-> <<>>, err |-> formatAPIError(parsed.Error, answer.status, model)]
    ELSE IF answer.status # 200
    THEN [response |-> <<>>,
          err |-> <<65, 80, 73, 32, 114, 101, 116, 117, 114, 110, 101, 100, 32, 115, 116, 97, 116, 117, 115, 32>> \o Decimal(answer.status) \o <<58, 32>> \o answer.body]  \* "API returned status "
    ELSE IF Len(parsed.Choices) = 0
    THEN [response |-> <<>>, err |-> <<101, 109, 112, 116, 121, 32, 114, 101, 115, 112, 111, 110, 115, 101, 32, 102, 114, 111, 109, 32, 79, 112, 101, 110, 82, 111, 117, 116, 101, 114>>]  \* "empty response from OpenRouter"
    ELSE [response |-> parsed.Choices[1], err |-> <<>>]

(* makeRequest: one request; the content of the first choice, or an error *)
makeRequest(model, answer) ==
    IF answer.doErr # <<>>
    THEN [response |-> <<>>, err |-> <<102, 97, 105, 108, 101, 100, 32, 116, 111, 32, 109, 97, 107, 101, 32, 114, 101, 113, 117, 101, 115, 116, 58, 32>> \o answer.doErr]  \* "failed to make request: "
    ELSE IF answer.readErr # <<>>
    THEN [response |-> <<>>, err |-> <<102, 97, 105, 108, 101, 100, 32, 116, 111, 32, 114, 101, 97, 100, 32, 114, 101, 115, 112, 111, 110, 115, 101, 58, 32>> \o answer.readErr]  \* "failed to read response: "
    ELSE Checked(Unmarshal(answer.body), answer, model)

(* what makeRequest can return *)
RequestOutcomes == {makeRequest(DefaultModel, answer) : answer \in Answers}

(* "failed after 3 attempts: %w" *)
FailedAfter(lastErr) == <<102, 97, 105, 108, 101, 100, 32, 97, 102, 116, 101, 114, 32, 51, 32, 97, 116, 116, 101, 109, 112, 116, 115, 58, 32>> \o lastErr  \* "failed after 3 attempts: "

(* callOpenRouter is entered: no attempt made yet *)
CallOpenRouterBegin ==
    /\ pc = "api"
    /\ pc' = "attempt"
    /\ ret' = [op |-> "callOpenRouter", attempt |-> 0, requests |-> 0, slept |-> <<>>,
               outcomes |-> <<>>, lastErr |-> <<>>, response |-> <<>>, err |-> <<>>]
    /\ UNCHANGED <<req, pending, nread, started, written, last, tail, sqlite, weaviate, created, goarch>>

(* mutant: the loop goes round once more *)
CallOpenRouterAttempt_OneMore ==
    /\ pc = "attempt"
    /\ \E out \in RequestOutcomes :
        LET slept == IF ret.attempt > 0 THEN Append(ret.slept, 2 ^ (ret.attempt - 1)) ELSE ret.slept
            tried == [ret EXCEPT !.slept = slept, !.requests = @ + 1,
                                 !.outcomes = Append(@, out)]
        IN  IF out.err = <<>>
            THEN /\ ret' = [tried EXCEPT !.response = out.response]
                 /\ pc' = "returned"
            ELSE IF ~shouldRetry(out.err)
            THEN /\ ret' = [tried EXCEPT !.lastErr = out.err, !.err = out.err]
                 /\ pc' = "returned"
            ELSE IF ret.attempt + 1 <= maxRetries
            THEN /\ ret' = [tried EXCEPT !.lastErr = out.err, !.attempt = @ + 1]
                 /\ pc' = "attempt"
            ELSE /\ ret' = [tried EXCEPT !.lastErr = out.err, !.attempt = @ + 1,
                                         !.err = FailedAfter(out.err)]
                 /\ pc' = "returned"
    /\ UNCHANGED <<req, pending, nread, started, written, last, tail, sqlite, weaviate, created, goarch>>

(* one round of the loop: the backoff when it is not the first round, the
   request, and what the loop does with its outcome *)
CallOpenRouterAttempt ==
    /\ pc = "attempt"
    /\ \E out \in RequestOutcomes :
        LET slept == IF ret.attempt > 0 THEN Append(ret.slept, 2 ^ (ret.attempt - 1)) ELSE ret.slept
            tried == [ret EXCEPT !.slept = slept, !.requests = @ + 1,
                                 !.outcomes = Append(@, out)]
        IN  IF out.err = <<>>
            THEN /\ ret' = [tried EXCEPT !.response = out.response]
                 /\ pc' = "returned"
            ELSE IF ~shouldRetry(out.err)
            THEN /\ ret' = [tried EXCEPT !.lastErr = out.err, !.err = out.err]
                 /\ pc' = "returned"
            ELSE IF ret.attempt + 1 < maxRetries
            THEN /\ ret' = [tried EXCEPT !.lastErr = out.err, !.attempt = @ + 1]
                 /\ pc' = "attempt"
            ELSE /\ ret' = [tried EXCEPT !.lastErr = out.err, !.attempt = @ + 1,
                                         !.err = FailedAfter(out.err)]
                 /\ pc' = "returned"
    /\ UNCHANGED <<req, pending, nread, started, written, last, tail, sqlite, weaviate, created, goarch>>

NextOpenRouter ==
    \/ CallOpenRouterBegin
    \/ CallOpenRouterAttempt
    \/ ApiReturned

SpecOpenRouter == InitEngine /\ [][NextOpenRouter]_vars

(* C40: callOpenRouter makes at most 3 requests; it returns the first
   successful response without a further request, returns the error itself
   after the first error that shouldRetry does not accept, and after 3
   retryable failures returns an error that wraps the last one; it sleeps
   before every request except the first. *)
C40_AtMostThreeAttempts ==
    ret.op = "callOpenRouter" =>
        LET n == Len(ret.outcomes)
            Retryable(i) == ret.outcomes[i].err # <<>> /\ shouldRetry(ret.outcomes[i].err)
        IN  /\ ret.requests = n
            /\ n <= maxRetries
            /\ \A i \in 1..(n - 1) : Retryable(i)
            /\ ret.slept = [i \in 1..(IF n = 0 THEN 0 ELSE n - 1) |-> 2 ^ (i - 1)]
            /\ pc = "attempt" => (n < maxRetries /\ (n > 0 => Retryable(n)))
            /\ pc = "returned" =>
                  /\ n >= 1
                  /\ IF ret.outcomes[n].err = <<>>
                     THEN ret.err = <<>> /\ ret.response = ret.outcomes[n].response
                     ELSE IF ~Retryable(n)
                     THEN ret.err = ret.outcomes[n].err
                     ELSE n = maxRetries /\ ret.err = FailedAfter(ret.outcomes[n].err)

C40_Witness ==
    /\ pc = "returned"
    /\ ret.op = "callOpenRouter"
    /\ ret.requests = maxRetries
    /\ ret.slept = <<1, 2>>
    /\ ret.err = FailedAfter(ret.outcomes[maxRetries].err)
    /\ ret.outcomes[1].err # ret.outcomes[maxRetries].err

====
